---- MODULE Spec2Model ----
(***************************************************************************)
(* Model of the STORYLINES layout engine (src/src/lib/graphEngine.ts, a    *)
(* wrapper around a d3-force simulation), of its hit test findNodeAt and   *)
(* of the graph analytics (src/utils/analytics.ts).                        *)
(*                                                                         *)
(* Numbers: coordinates are small integers; alpha, alphaTarget are kept in *)
(* thousandths (0.3 is 300); multipliers of getNodeRadius in tenths.       *)
(* Null stands for the JavaScript values undefined, null and NaN, which    *)
(* the code and d3 tell apart nowhere (node.fx == null, isNaN(node.x)).    *)
(***************************************************************************)
EXTENDS Integers, Sequences, FiniteSets, TLC

VARIABLES
  node,        \* the host's node objects, by id: geometry fields and d3's index
  edge,        \* the host's edge objects, by id: source, target, d3's index
  config,      \* GraphEngine.config
  simulation,  \* GraphEngine.simulation: 0 is null, else the identity of the d3 simulation
  sim,         \* the d3 state of the simulation the engine holds
  created,     \* number of d3 simulations created so far (gives identities)
  ops,         \* number of operations performed so far (bounded)
  raised,      \* the last engine call threw
  via,         \* the method that created the simulation the engine holds
  destroyed,   \* destroy() has been called on this engine
  drag,        \* the host's drag gesture: phase, node, last dragged coordinates
  registered,  \* the callback last passed to onTick (0: none)
  invoked,     \* the callback called by the simulation step just taken (0: none;
               \* Null: the last operation was not a step)
  findIn,      \* findNodeAt: the arguments (x, y, nodes)
  findOut,     \* findNodeAt: the result
  statsIn,     \* calculateGraphStats: the arguments (nodes, edges)
  statsOut,    \* calculateGraphStats: the result
  csv,         \* exportStatsAsCSV: the lines of the text exported, <<>> before
  filterIn,    \* filterNodes: the arguments (nodes, criteria)
  filterOut,   \* filterNodes: the result
  radiusIn,    \* getNodeRadius: the node of the next call (type, depth)
  radiusOut,   \* getNodeRadius: the result of the last call
  cache,       \* LRUCache.cache: the Map, entries in insertion order
  timestamps,  \* LRUCache.timestamps: time of the last set or get hit, by key
  now,         \* Date.now()
  used,        \* the keys in the order of their last set or successful get
  cacheOut,    \* the last cache operation and what it returned
  stored,      \* the time of the set that stored each entry of the cache, by key
  limiter,     \* the RateLimiter: max, window, timestamps
  clock,       \* Date.now() of the rate limiter, in ms
  limiterOut,  \* what the last check() or remaining returned
  allowedAt,   \* the times of the allowed check() calls since the last reset
  graph,           \* useGraphStore: graph.nodes and graph.edges, as lists
  selectedNodeId,  \* useGraphStore: selectedNodeId
  hoveredNodeId,   \* useGraphStore: hoveredNodeId
  removed,         \* the id removeNode was called with, when it was the last store action
  dataIn,      \* dataService: the graph the host exports
  json,        \* dataService: the JSON text exported, as its tokens
  dataOut,     \* dataService: what importGraph returned or threw
  draggedNode, \* GraphCanvas: draggedNode of the mouse effect's live closure
  pressed,     \* GraphCanvas: a pointer gesture on the canvas is in progress
  pending,     \* the nodes engine.dragStarted was called with and dragEnded not yet
  storage,     \* localStorage: the item under STORAGE_KEY
  saved,       \* by id, the preset last saved and not deleted since
  today,       \* new Date() of the preset store, as a day number
  presetOut    \* what the last preset operation returned

vars == <<node, edge, config, simulation, sim, created, ops, raised, via,
          destroyed, drag, registered, invoked, findIn, findOut, statsIn, statsOut,
          csv, filterIn, filterOut, radiusIn, radiusOut, cache, timestamps, now,
          used, cacheOut, stored, limiter, clock, limiterOut, allowedAt,
          graph, selectedNodeId, hoveredNodeId, removed, dataIn, json, dataOut,
          draggedNode, pressed, pending, storage, saved, today, presetOut>>

engineVars == <<node, edge, config, simulation, sim, created, ops, raised,
                via, destroyed, drag, registered, invoked>>
findVars == <<findIn, findOut>>
statsVars == <<statsIn, statsOut, csv>>
filterVars == <<filterIn, filterOut>>
radiusVars == <<radiusIn, radiusOut>>
cacheVars == <<cache, timestamps, now, used, cacheOut, stored>>
limiterVars == <<limiter, clock, limiterOut, allowedAt>>
storeVars == <<graph, selectedNodeId, hoveredNodeId, removed>>
dataVars == <<dataIn, json, dataOut>>
canvasVars == <<draggedNode, pressed, pending>>
presetVars == <<storage, saved, today, presetOut>>
uiVars == <<canvasVars, presetVars>>
lateVars == <<limiterVars, storeVars, dataVars, uiVars>>
baseVars == <<engineVars, findVars, statsVars, filterVars, radiusVars, cacheVars>>
notLimiter == <<baseVars, storeVars, dataVars, uiVars>>
notStore == <<baseVars, limiterVars, dataVars, uiVars>>
notData == <<baseVars, limiterVars, storeVars, uiVars>>
notPresets == <<baseVars, limiterVars, storeVars, dataVars, canvasVars>>
utilVars == <<filterVars, radiusVars, cacheVars, lateVars>>

Null == 0 - 999

(***************************************************************************)
(* Bounds of the model.                                                    *)
(***************************************************************************)
MaxOps == 5

\* the grid of positions and the velocities of one step
Coord == {0, 1}
Vel == {0, 1}
NodeIds == {"a", "b"}
EdgeIds == {"e1", "e2"}
Callbacks == {1}
\* the (nodes, edges) arguments of initialize and updateGraph: edge e2 joins
\* a to itself, edge e1 joins a to b and dangles when b is not passed
Graphs ==
  {[nodes |-> <<"a">>, edges |-> <<"e2">>],
   [nodes |-> <<"a", "b">>, edges |-> <<"e2", "e1">>],
   [nodes |-> <<"a">>, edges |-> <<"e2", "e1">>]}
\* pointer positions of the dragged events
Points == {<<0, 1>>, <<1, 1>>}
DragNodes == NodeIds

Range(s) == {s[i] : i \in DOMAIN s}

(***************************************************************************)
(* The host's graph objects.  An edge endpoint is the id string the host   *)
(* stored (ref = "id") or, once d3's link force has resolved it, the node  *)
(* object itself (ref = "node").                                           *)
(***************************************************************************)
Id(s) == [ref |-> "id", id |-> s]
Obj(s) == [ref |-> "node", id |-> s]

NodeTypeOf(n) == IF n = "a" THEN "book" ELSE "author"
NodeDepthOf(n) == IF n = "a" THEN 0 ELSE 1

HostNode(n) ==
  [id |-> n, type |-> NodeTypeOf(n), depth |-> NodeDepthOf(n),
   x |-> Null, y |-> Null, vx |-> Null, vy |-> Null, fx |-> Null, fy |-> Null,
   index |-> Null]

HostEdge(e) ==
  [id |-> e,
   source |-> Id("a"),
   target |-> IF e = "e1" THEN Id("b") ELSE Id("a"),
   index |-> Null]

DefaultConfig ==
  [width |-> 1200, height |-> 800, nodeRadius |-> 8, linkDistance |-> 100,
   chargeStrength |-> 0 - 300, enableCollision |-> TRUE]

(***************************************************************************)
(* d3.forceSimulation: state of a simulation.                              *)
(***************************************************************************)
AlphaDecay == 23
AlphaMin == 1

NoSim ==
  [nodes |-> <<>>, links |-> <<>>, forces |-> {}, alpha |-> 0,
   alphaTarget |-> 0, running |-> FALSE, tick |-> 0]

Force(name, a, b) == [name |-> name, a |-> a, b |-> b]

SetForce(F, name, a, b) == {f \in F : f.name # name} \cup {Force(name, a, b)}

RemoveForce(F, name) == {f \in F : f.name # name}

ForceNames(F) == {f.name : f \in F}

\* initializeNodes of d3-force, for the node at position i (0-based) of the array
InitialX(i) == IF i = 0 THEN 1 ELSE 0
InitialY(i) == IF i = 0 THEN 0 ELSE 1

InitializeNode(nd, i) ==
  LET x1 == IF nd.fx # Null THEN nd.fx ELSE nd.x
      y1 == IF nd.fy # Null THEN nd.fy ELSE nd.y
      unplaced == x1 = Null \/ y1 = Null
      still == nd.vx = Null \/ nd.vy = Null
  IN [nd EXCEPT !.index = i,
                !.x = IF unplaced THEN InitialX(i) ELSE x1,
                !.y = IF unplaced THEN InitialY(i) ELSE y1,
                !.vx = IF still THEN 0 ELSE nd.vx,
                !.vy = IF still THEN 0 ELSE nd.vy]

InitializeNodes(nf, ns) ==
  [n \in NodeIds |->
     IF n \in Range(ns)
       THEN InitializeNode(nf[n], (CHOOSE i \in DOMAIN ns : ns[i] = n) - 1)
       ELSE nf[n]]

\* forceLink.initialize: resolve each link's endpoints by id, in order; the
\* lookup of an id that no node has throws and leaves the rest untouched
RECURSIVE ResolveFrom(_, _, _, _)
ResolveFrom(i, links, ns, ef) ==
  IF i > Len(links) THEN [edge |-> ef, threw |-> FALSE]
  ELSE
    LET e == links[i]
        l0 == [ef[e] EXCEPT !.index = i - 1]
        srcMissing == l0.source.ref = "id" /\ l0.source.id \notin Range(ns)
        l1 == IF l0.source.ref = "id" /\ ~srcMissing
                THEN [l0 EXCEPT !.source = Obj(l0.source.id)] ELSE l0
        tgtMissing == l1.target.ref = "id" /\ l1.target.id \notin Range(ns)
        l2 == IF l1.target.ref = "id" /\ ~tgtMissing
                THEN [l1 EXCEPT !.target = Obj(l1.target.id)] ELSE l1
    IN IF srcMissing THEN [edge |-> [ef EXCEPT ![e] = l0], threw |-> TRUE]
       ELSE IF tgtMissing THEN [edge |-> [ef EXCEPT ![e] = l1], threw |-> TRUE]
       ELSE ResolveFrom(i + 1, links, ns, [ef EXCEPT ![e] = l2])

ResolveLinks(links, ns, ef) == ResolveFrom(1, links, ns, ef)

\* the forces GraphEngine.initialize registers, with the values they capture
InitForces(c) ==
  LET base == {Force("link", c.linkDistance, 0),
               Force("charge", c.chargeStrength, 0),
               Force("center", c.width \div 2, c.height \div 2),
               Force("x", c.width \div 2, 0),
               Force("y", c.height \div 2, 0),
               Force("radial", c.width \div 2, c.height \div 2)}
  IN IF c.enableCollision
       THEN base \cup {Force("collision", c.nodeRadius, 0)}
       ELSE base

\* simulation.nodes(nodes) re-initialises every force: the link force
\* recomputes its distances, the collision force its radii
ReinitForces(F, c) ==
  {IF f.name = "link" THEN Force("link", c.linkDistance, 0)
   ELSE IF f.name = "collision" THEN Force("collision", c.nodeRadius, 0)
   ELSE f : f \in F}


(***************************************************************************)
(* GraphEngine operations.  Every call of the host is one action; a call   *)
(* that throws sets raised and keeps what it had written before the throw. *)
(***************************************************************************)
\* every operation counts against the bound of the run
Count == ops < MaxOps /\ ops' = ops + 1

NewSim(ns, es, c) ==
  [nodes |-> ns, links |-> es, forces |-> InitForces(c), alpha |-> 1000,
   alphaTarget |-> 0, running |-> TRUE, tick |-> 0]

\* body of GraphEngine.initialize: d3.forceSimulation(nodes) initialises the
\* nodes and starts its timer; .force('link', ...) resolves the edges and may
\* throw, in which case this.simulation is never assigned.  A simulation the
\* engine holds no reference to (the one replaced, the one half built) is
\* counted in created and followed no further.
initializeBody(ns, es, caller) ==
  LET r == ResolveLinks(es, ns, edge)
  IN /\ node' = InitializeNodes(node, ns)
     /\ edge' = r.edge
     /\ created' = created + 1
     /\ raised' = r.threw
     /\ IF r.threw
          THEN UNCHANGED <<simulation, sim, via>>
          ELSE /\ simulation' = created + 1
               /\ sim' = NewSim(ns, es, config)
               /\ via' = caller

initialize(ns, es) ==
  /\ initializeBody(ns, es, "initialize")
  /\ Count
  /\ invoked' = Null
  /\ UNCHANGED <<destroyed, config, drag, registered, findVars, statsVars, utilVars>>

\* body of GraphEngine.updateGraph on an engine that holds a simulation
updateGraphBody(ns, es) ==
  LET r1 == ResolveLinks(sim.links, ns, edge)
      r2 == ResolveLinks(es, ns, r1.edge)
      s1 == [sim EXCEPT !.nodes = ns, !.forces = ReinitForces(sim.forces, config)]
      s2 == [s1 EXCEPT !.links = es]
  IN /\ node' = InitializeNodes(node, ns)
     /\ UNCHANGED <<simulation, created, via>>
     /\ IF r1.threw
          THEN /\ edge' = r1.edge
               /\ sim' = [sim EXCEPT !.nodes = ns]
               /\ raised' = TRUE
          ELSE IF r2.threw
          THEN /\ edge' = r2.edge
               /\ sim' = s2
               /\ raised' = TRUE
          ELSE /\ edge' = r2.edge
               /\ sim' = [s2 EXCEPT !.alpha = 300, !.running = TRUE]
               /\ raised' = FALSE

\* updateGraph without the call of initialize: no simulation, nothing done
updateGraphNoInit(ns, es) ==
  /\ IF simulation = 0
       THEN UNCHANGED <<node, edge, created, simulation, sim, via, raised>>
       ELSE updateGraphBody(ns, es)
  /\ Count
  /\ invoked' = Null
  /\ UNCHANGED <<destroyed, config, drag, registered, findVars, statsVars, utilVars>>

updateGraph(ns, es) ==
  /\ IF simulation = 0
       THEN initializeBody(ns, es, "updateGraph")
       ELSE updateGraphBody(ns, es)
  /\ Count
  /\ invoked' = Null
  /\ UNCHANGED <<destroyed, config, drag, registered, findVars, statsVars, utilVars>>

onTick(cb) ==
  /\ sim' = IF simulation # 0 THEN [sim EXCEPT !.tick = cb] ELSE sim
  /\ registered' = cb
  /\ Count
  /\ raised' = FALSE
  /\ invoked' = Null
  /\ UNCHANGED <<via, destroyed, node, edge, config, simulation, created, drag,
                 findVars, statsVars, utilVars>>

start ==
  /\ sim' = IF simulation # 0 THEN [sim EXCEPT !.running = TRUE] ELSE sim
  /\ Count
  /\ raised' = FALSE
  /\ invoked' = Null
  /\ UNCHANGED <<via, destroyed, node, edge, config, simulation, created, drag,
                 registered, findVars, statsVars, utilVars>>

stop ==
  /\ sim' = IF simulation # 0 THEN [sim EXCEPT !.running = FALSE] ELSE sim
  /\ Count
  /\ raised' = FALSE
  /\ invoked' = Null
  /\ UNCHANGED <<via, destroyed, node, edge, config, simulation, created, drag,
                 registered, findVars, statsVars, utilVars>>

\* this.simulation?.alpha(0.5).restart()
Reheated(s) == [s EXCEPT !.alpha = 500, !.running = TRUE]

reheat ==
  /\ sim' = IF simulation # 0 THEN Reheated(sim) ELSE sim
  /\ Count
  /\ raised' = FALSE
  /\ invoked' = Null
  /\ UNCHANGED <<via, destroyed, node, edge, config, simulation, created, drag,
                 registered, findVars, statsVars, utilVars>>


(***************************************************************************)
(* Drag operations.  The host calls them in the order of one gesture:      *)
(* dragStarted, any number of dragged, dragEnded (drag.phase).             *)
(***************************************************************************)
dragStarted(n, active) ==
  /\ drag.phase \in {"idle", "ended"}
  /\ drag' = [phase |-> "started", node |-> n, x |-> Null, y |-> Null]
  /\ IF simulation = 0
       THEN UNCHANGED <<node, sim>>
       ELSE /\ sim' = IF ~active
                        THEN [sim EXCEPT !.alphaTarget = 300, !.running = TRUE]
                        ELSE sim
            /\ node' = [node EXCEPT ![n].fx = node[n].x, ![n].fy = node[n].y]
  /\ Count
  /\ raised' = FALSE
  /\ invoked' = Null
  /\ UNCHANGED <<via, destroyed, edge, config, simulation, created, registered,
                 findVars, statsVars, utilVars>>

dragged(n, x, y) ==
  /\ drag.phase \in {"started", "moved"}
  /\ n = drag.node
  /\ node' = [node EXCEPT ![n].fx = x, ![n].fy = y]
  /\ drag' = [phase |-> "moved", node |-> n, x |-> x, y |-> y]
  /\ Count
  /\ raised' = FALSE
  /\ invoked' = Null
  /\ UNCHANGED <<via, destroyed, edge, config, simulation, sim, created, registered,
                 findVars, statsVars, utilVars>>

\* dragEnded with the two commented-out lines active: the pin is released
dragEndedReleasing(n, active) ==
  /\ drag.phase \in {"started", "moved"}
  /\ n = drag.node
  /\ drag' = [drag EXCEPT !.phase = "ended"]
  /\ sim' = IF simulation # 0 /\ ~active
              THEN [sim EXCEPT !.alphaTarget = 0]
              ELSE sim
  /\ node' = IF simulation # 0
               THEN [node EXCEPT ![n].fx = Null, ![n].fy = Null]
               ELSE node
  /\ Count
  /\ raised' = FALSE
  /\ invoked' = Null
  /\ UNCHANGED <<via, destroyed, edge, config, simulation, created, registered,
                 findVars, statsVars, utilVars>>

dragEnded(n, active) ==
  /\ drag.phase \in {"started", "moved"}
  /\ n = drag.node
  /\ drag' = [drag EXCEPT !.phase = "ended"]
  /\ sim' = IF simulation # 0 /\ ~active
              THEN [sim EXCEPT !.alphaTarget = 0]
              ELSE sim
  /\ Count
  /\ raised' = FALSE
  /\ invoked' = Null
  /\ UNCHANGED <<via, destroyed, node, edge, config, simulation, created, registered,
                 findVars, statsVars, utilVars>>

(***************************************************************************)
(* Clustering, configuration, destruction.                                 *)
(***************************************************************************)
applyTypeClustering(enable) ==
  /\ sim' = IF simulation = 0 THEN sim
            ELSE IF enable
              THEN Reheated([sim EXCEPT !.forces =
                     SetForce(SetForce(sim.forces, "cluster", config.width, 0),
                              "cluster-y", config.height, 0)])
              ELSE Reheated([sim EXCEPT !.forces =
                     RemoveForce(RemoveForce(sim.forces, "cluster"), "cluster-y")])
  /\ Count
  /\ raised' = FALSE
  /\ invoked' = Null
  /\ UNCHANGED <<via, destroyed, node, edge, config, simulation, created, drag,
                 registered, findVars, statsVars, utilVars>>

\* { ...this.config, ...config }
Merge(c, p) == [k \in DOMAIN c |-> IF k \in DOMAIN p THEN p[k] ELSE c[k]]

Partials ==
  {[width |-> 800, height |-> 600]}

updateConfig(p) ==
  LET c == Merge(config, p)
  IN /\ config' = c
     /\ sim' = IF simulation = 0 THEN sim
               ELSE Reheated([sim EXCEPT !.forces =
                      SetForce(SetForce(sim.forces, "charge", c.chargeStrength, 0),
                               "center", c.width \div 2, c.height \div 2)])
  /\ Count
     /\ raised' = FALSE
     /\ invoked' = Null
     /\ UNCHANGED <<via, destroyed, node, edge, simulation, created, drag, registered,
                    findVars, statsVars, utilVars>>

\* destroy that stops the simulation but keeps the reference
destroyKeeping ==
  /\ sim' = IF simulation # 0 THEN [sim EXCEPT !.running = FALSE] ELSE sim
  /\ destroyed' = TRUE
  /\ Count
  /\ raised' = FALSE
  /\ invoked' = Null
  /\ UNCHANGED <<via, simulation, node, edge, config, created, drag, registered,
                 findVars, statsVars, utilVars>>

destroy ==
  /\ simulation' = 0
  /\ sim' = NoSim
  /\ via' = "none"
  /\ destroyed' = TRUE
  /\ Count
  /\ raised' = FALSE
  /\ invoked' = Null
  /\ UNCHANGED <<node, edge, config, created, drag, registered,
                 findVars, statsVars, utilVars>>

(***************************************************************************)
(* One step of the d3 timer: tick() moves the nodes, then the 'tick'       *)
(* listener is called, then the simulation stops itself below alphaMin.    *)
(* What the forces do to a free node is not determined: its velocity is    *)
(* any of Vel and its position advances by it.                             *)
(***************************************************************************)
Moved(nd, v) ==
  [nd EXCEPT !.vx = IF nd.fx = Null THEN v[1] ELSE 0,
             !.x = IF nd.fx = Null THEN nd.x + v[1] ELSE nd.fx,
             !.vy = IF nd.fy = Null THEN v[2] ELSE 0,
             !.y = IF nd.fy = Null THEN nd.y + v[2] ELSE nd.fy]

\* the velocities the forces may leave a node with: a pinned coordinate
\* does not move, a free one stays on the grid
Moves(n) ==
  IF n \notin Range(sim.nodes) THEN {<<0, 0>>}
  ELSE {v \in Vel \X Vel :
          /\ IF node[n].fx = Null THEN node[n].x + v[1] \in Coord ELSE v[1] = 0
          /\ IF node[n].fy = Null THEN node[n].y + v[2] \in Coord ELSE v[2] = 0}

step ==
  /\ simulation # 0
  /\ sim.running
  /\ \E va \in Moves("a"), vb \in Moves("b") :
       node' = [n \in NodeIds |->
                  IF n \in Range(sim.nodes)
                    THEN Moved(node[n], IF n = "a" THEN va ELSE vb)
                    ELSE node[n]]
  /\ LET a == sim.alpha + ((sim.alphaTarget - sim.alpha) * AlphaDecay) \div 1000
     IN sim' = [sim EXCEPT !.alpha = a,
                           !.running = ~(a < AlphaMin)]
  /\ invoked' = sim.tick
  /\ Count
  /\ raised' = FALSE
  /\ UNCHANGED <<via, destroyed, edge, config, simulation, created, drag,
                 registered, findVars, statsVars, utilVars>>

(***************************************************************************)
(* The engine after construction, driven by any host.                      *)
(***************************************************************************)
NoFind == [x |-> 0, y |-> 0, nodes |-> <<>>]
NoStats == [keys |-> <<>>, edges |-> <<>>, titled |-> FALSE]
NoStatsOut == [done |-> FALSE]
NoFilter == [keys |-> <<>>, criteria |-> <<>>]
NoFilterOut == [done |-> FALSE]
NoRadius == [type |-> "book", depth |-> 0]
NoRadiusOut == [done |-> FALSE]
NoCacheOut == [op |-> "none"]

InitEngine ==
  /\ node = [n \in NodeIds |-> HostNode(n)]
  /\ edge = [e \in EdgeIds |-> HostEdge(e)]
  /\ config = DefaultConfig
  /\ simulation = 0
  /\ sim = NoSim
  /\ created = 0
  /\ ops = 0
  /\ raised = FALSE
  /\ via = "none"
  /\ destroyed = FALSE
  /\ drag = [phase |-> "idle", node |-> "a", x |-> Null, y |-> Null]
  /\ registered = 0
  /\ invoked = Null

\* the pure functions not called, the cache not constructed
IdleFind == findIn = NoFind /\ findOut = Null
IdleStats == statsIn = NoStats /\ statsOut = NoStatsOut /\ csv = <<>>
IdleFilter == filterIn = NoFilter /\ filterOut = NoFilterOut
IdleRadius == radiusIn = NoRadius /\ radiusOut = NoRadiusOut
IdleCache ==
  /\ cache = <<>>
  /\ timestamps = <<>>
  /\ now = 0
  /\ used = <<>>
  /\ cacheOut = NoCacheOut
  /\ stored = <<>>

NoLimiter == [max |-> 1, window |-> 1000, timestamps |-> <<>>]
NoLimiterOut == [op |-> "none"]

IdleLimiter ==
  /\ limiter = NoLimiter
  /\ clock = 0
  /\ limiterOut = NoLimiterOut
  /\ allowedAt = <<>>

NullId == "<null>"
NoGraph == [nodes |-> <<>>, edges |-> <<>>]

IdleStore ==
  /\ graph = NoGraph
  /\ selectedNodeId = NullId
  /\ hoveredNodeId = NullId
  /\ removed = NullId

NoDataOut == [done |-> FALSE]

IdleData ==
  /\ dataIn = [kind |-> "undefined", text |-> "", num |-> 0, members |-> <<>>]
  /\ json = <<>>
  /\ dataOut = NoDataOut

\* no pointer gesture on the canvas; no preset stored
IdleCanvas == draggedNode = NullId /\ pressed = FALSE /\ pending = <<>>

NoItem == [present |-> FALSE, data |-> <<>>]
NoPreset == [kind |-> "undefined", text |-> "", num |-> 0, members |-> <<>>]
PresetIds == {"f1", "f2", "f3"}

IdlePresets ==
  /\ storage = NoItem
  /\ saved = [i \in PresetIds |-> NoPreset]
  /\ today = 1
  /\ presetOut = NoPreset

IdleUi == IdleCanvas /\ IdlePresets

IdleLate ==
  /\ IdleLimiter
  /\ IdleStore
  /\ IdleData
  /\ IdleUi

Init ==
  /\ InitEngine
  /\ IdleLate
  /\ IdleFind
  /\ IdleStats
  /\ IdleFilter
  /\ IdleRadius
  /\ IdleCache

Next ==
  \/ \E g \in Graphs : initialize(g.nodes, g.edges)
  \/ \E g \in Graphs : updateGraph(g.nodes, g.edges)
  \/ \E cb \in Callbacks : onTick(cb)
  \/ start
  \/ stop
  \/ reheat
  \/ \E n \in DragNodes, active \in BOOLEAN : dragStarted(n, active)
  \/ \E n \in DragNodes, p \in Points : dragged(n, p[1], p[2])
  \/ \E n \in DragNodes, active \in BOOLEAN : dragEnded(n, active)
  \/ \E enable \in BOOLEAN : applyTypeClustering(enable)
  \/ \E p \in Partials : updateConfig(p)
  \/ destroy
  \/ step

Spec == Init /\ [][Next]_vars


(***************************************************************************)
(* Properties of the layout engine.                                        *)
(***************************************************************************)
Geometry(nd) == <<nd.x, nd.y, nd.vx, nd.vy, nd.fx, nd.fy>>

IsDragStarted == \E n \in DragNodes, active \in BOOLEAN : dragStarted(n, active)

\* C1: once a gesture dragStarted, dragged (one or more), dragEnded is over,
\* fx and fy of the node are the coordinates of the last dragged call, and no
\* operation other than the start of a new gesture makes a non-null fx or fy
\* null again.
C1_PinPersists ==
  [][/\ (drag'.phase = "ended" /\ drag'.x # Null) =>
          /\ node'[drag'.node].fx = drag'.x
          /\ node'[drag'.node].fy = drag'.y
     /\ \A n \in NodeIds :
          ~IsDragStarted =>
            /\ node[n].fx # Null => node'[n].fx # Null
            /\ node[n].fy # Null => node'[n].fy # Null]_vars

\* a gesture with a dragged call has ended on a live simulation, and a
\* simulation step has been taken since
C1_Witness ==
  /\ simulation # 0
  /\ drag.phase = "ended"
  /\ drag.x # Null
  /\ node[drag.node].fx = drag.x
  /\ invoked # Null

\* C2: updateGraph on an engine that holds a simulation keeps that simulation
\* and its forces, leaves the geometry of every node already attached as it
\* was, and sets alpha to 0.3.
C2_UpdateKeepsLayout ==
  [][\A g \in Graphs :
       (simulation # 0 /\ updateGraph(g.nodes, g.edges)) =>
         /\ simulation' = simulation
         /\ ForceNames(sim'.forces) = ForceNames(sim.forces)
         /\ \A n \in Range(sim.nodes) : Geometry(node'[n]) = Geometry(node[n])
         /\ sim'.alpha = 300]_vars

\* C3: initialize and updateGraph never raise.
C3_NeverRaises == raised = FALSE

\* C4: no operation changes a node field other than x, y, vx, vy, fx, fy,
\* and none changes a field of an edge.
C4_OnlyGeometryMutated ==
  [][/\ edge' = edge
     /\ \A n \in NodeIds :
          /\ node'[n].id = node[n].id
          /\ node'[n].type = node[n].type
          /\ node'[n].depth = node[n].depth
          /\ node'[n].index = node[n].index]_vars

\* C5: on an engine without a simulation, updateGraph(nodes, edges) leaves
\* the nodes, the edges and the engine as initialize(nodes, edges) does: the
\* forces of initialize, the given nodes and edges attached, alpha 1.
C5_UpdateGraphInitializes ==
  [][\A g \in Graphs :
       (simulation = 0 /\ updateGraph(g.nodes, g.edges)) =>
         LET r == ResolveLinks(g.edges, g.nodes, edge)
         IN /\ node' = InitializeNodes(node, g.nodes)
            /\ edge' = r.edge
            /\ raised' = r.threw
            /\ IF r.threw
                 THEN simulation' = 0 /\ sim' = sim
                 ELSE /\ simulation' # 0
                      /\ sim'.forces = InitForces(config)
                      /\ sim'.nodes = g.nodes
                      /\ sim'.links = g.edges
                      /\ sim'.alpha = 1000
                      /\ sim'.running]_vars

\* the first call on a fresh engine was updateGraph and it built the simulation
C5_Witness ==
  /\ via = "updateGraph"
  /\ simulation # 0
  /\ ops = 1
  /\ sim = NewSim(sim.nodes, sim.links, config)

\* C6 (as claimed): once destroy has been called the engine never again
\* holds a running simulation.
C6_UnusableAfterDestroy == destroyed => ~(simulation # 0 /\ sim.running)

\* C6 (amended): destroy leaves the engine without a simulation, and an
\* engine without a simulation gets one only from initialize or updateGraph.
C6_DestroyReleases ==
  [][/\ destroy => (simulation' = 0 /\ ~sim'.running)
     /\ (simulation = 0 /\ simulation' # 0) =>
          \E g \in Graphs : \/ initialize(g.nodes, g.edges)
                            \/ updateGraph(g.nodes, g.edges)]_vars

\* a destroyed engine holds a running simulation again
C6_Witness == destroyed /\ simulation # 0 /\ sim.running

\* C7: on a live simulation dragStarted leaves alphaTarget above 0 and
\* dragEnded leaves it at 0, whatever the 'active' flag of the event.
C7_AlphaTargetFollowsDrag ==
  [][/\ \A n \in DragNodes, active \in BOOLEAN :
          (simulation # 0 /\ dragStarted(n, active)) => sim'.alphaTarget > 0
     /\ \A n \in DragNodes, active \in BOOLEAN :
          (simulation # 0 /\ dragEnded(n, active)) => sim'.alphaTarget = 0]_vars

\* C8: a simulation step taken after onTick(callback) calls that callback.
C8_TickCallbackInvoked ==
  (invoked # Null /\ registered # 0) => invoked = registered


(***************************************************************************)
(* GraphEngine.findNodeAt, a pure function of the configuration and its    *)
(* arguments.  Radii are in hundredths: nodeRadius times the type          *)
(* multiplier in tenths times the depth multiplier in tenths.              *)
(***************************************************************************)
MaxFindNodes == 2

getNodeTypeMultiplier(type) ==
  CASE type = "author" -> 13
    [] type = "book" -> 10
    [] type = "genre" -> 11
    [] type = "theme" -> 9
    [] type = "character" -> 8
    [] type = "movement" -> 12
    [] OTHER -> 10

\* a radius whose depth multiplier stops falling at depth 3
getNodeRadiusClamped(nd) ==
  config.nodeRadius * getNodeTypeMultiplier(nd.type)
    * (10 + (3 - (IF nd.depth > 3 THEN 3 ELSE nd.depth)) * 2)

getNodeRadius(nd) ==
  config.nodeRadius * getNodeTypeMultiplier(nd.type) * (10 + (3 - nd.depth) * 2)

\* !node.x || !node.y : undefined, NaN and 0 are all falsy
Falsy(v) == v = Null \/ v = 0

\* Math.sqrt(dx * dx + dy * dy) <= radius
WithinRadius(x, y, nd) ==
  LET dx == x - nd.x
      dy == y - nd.y
      radius == getNodeRadius(nd)
  IN radius >= 0 /\ 10000 * (dx * dx + dy * dy) <= radius * radius

\* the position in nodes (from 1) of the node returned, 0 for null
RECURSIVE findNodeFrom(_, _, _, _)
findNodeFrom(i, x, y, nodes) ==
  IF i > Len(nodes) THEN 0
  ELSE IF Falsy(nodes[i].x) \/ Falsy(nodes[i].y) THEN findNodeFrom(i + 1, x, y, nodes)
  ELSE IF WithinRadius(x, y, nodes[i]) THEN i
  ELSE findNodeFrom(i + 1, x, y, nodes)

findNodeAt(x, y, nodes) == findNodeFrom(1, x, y, nodes)

FindTypes == {"book", "character"}
FindDepths == {0, 3}
FindNodeX == {Null, 0, 8}
FindNodeY == {0, 8}
FindPointX == {0, 8, 16}
FindPointY == {0, 8}

FindNodes ==
  [type : FindTypes, depth : FindDepths, x : FindNodeX, y : FindNodeY]

SeqsUpTo(S, k) == UNION {[1..n -> S] : n \in 0..k}

InitFind ==
  /\ InitEngine
  /\ IdleLate
  /\ findIn \in [x : FindPointX, y : FindPointY,
                 nodes : SeqsUpTo(FindNodes, MaxFindNodes)]
  /\ findOut = Null
  /\ IdleStats
  /\ IdleFilter
  /\ IdleRadius
  /\ IdleCache

callFindNodeAt ==
  /\ findOut = Null
  /\ findOut' = findNodeAt(findIn.x, findIn.y, findIn.nodes)
  /\ UNCHANGED <<engineVars, findIn, statsVars, utilVars>>

NextFind == callFindNodeAt

SpecFind == InitFind /\ [][NextFind]_vars

\* a node has a position when x and y are numbers, 0 included
Positioned(nd) == nd.x # Null /\ nd.y # Null

Hit(i) ==
  /\ Positioned(findIn.nodes[i])
  /\ WithinRadius(findIn.x, findIn.y, findIn.nodes[i])

\* C9: findNodeAt returns the first node in input order that has a position
\* (coordinate 0 included) and lies within its radius of the point, and null
\* exactly when there is no such node.
C9_FirstPositionedHit ==
  findOut # Null =>
    IF \E i \in DOMAIN findIn.nodes : Hit(i)
      THEN /\ findOut \in DOMAIN findIn.nodes
           /\ Hit(findOut)
           /\ \A j \in 1..(findOut - 1) : ~Hit(j)
      ELSE findOut = 0


(***************************************************************************)
(* calculateGraphStats (src/utils/analytics.ts).  nodes is a record keyed  *)
(* by node id (keys lists Object.keys in order), edges a list of           *)
(* source/target ids.  A JavaScript Map or Set keeps insertion order: a    *)
(* neighbour set is a sequence without repetitions, a Map a sequence of    *)
(* entries with distinct keys.  Ratios are kept as integers: averages in   *)
(* tenths, the density in thousandths, as Math.round leaves them; Null is  *)
(* the NaN or Infinity of a division by 0.                                 *)
(***************************************************************************)
MaxStatEdges == 2
MaxRankEdges == 4

StatIds == {"A", "B", "C"}

\* a wider graph, for the rankings that keep 5 entries
RankKeys == <<"A", "B", "C", "D", "E", "F", "G">>
Edge(a, b) == [source |-> a, target |-> b]
RankEdges ==
  <<Edge("A", "B"), Edge("C", "D"), Edge("E", "F"), Edge("G", "A"),
    Edge("C", "A"), Edge("D", "D")>>

\* the node objects: either every label is the node's id, or the labels are
\* titles and names
StatTypeOf(id) ==
  CASE id \in {"A", "E"} -> "book"
    [] id \in {"B", "F"} -> "author"
    [] OTHER -> "theme"

StatTitleOf(id) ==
  CASE id = "A" -> "Dune"
    [] id = "B" -> "Frank Herbert"
    [] id = "C" -> "Power"
    [] id = "D" -> "Fate"
    [] id = "E" -> "Emma"
    [] id = "F" -> "Jane Austen"
    [] OTHER -> "Love"

StatYearOf(id) ==
  CASE id = "A" -> 1965
    [] id = "E" -> 1815
    [] OTHER -> Null

StatNode(id, titled) ==
  [id |-> id, type |-> StatTypeOf(id),
   label |-> IF titled THEN StatTitleOf(id) ELSE id,
   publicationYear |-> IF titled THEN StatYearOf(id) ELSE Null,
   imageUrl |-> titled /\ StatTypeOf(id) = "book"]

AddToSet(s, v) == IF v \in Range(s) THEN s ELSE Append(s, v)

\* adjacency list learning only the target of each edge
RECURSIVE AdjacencyDirected(_, _, _)
AdjacencyDirected(keys, edges, i) ==
  IF i = 0 THEN [k \in Range(keys) |-> <<>>]
  ELSE
    LET adj == AdjacencyDirected(keys, edges, i - 1)
        e == edges[i]
    IN IF e.source \in DOMAIN adj
         THEN [adj EXCEPT ![e.source] = AddToSet(@, e.target)]
         ELSE adj

\* the adjacency list after the first i edges
RECURSIVE Adjacency(_, _, _)
Adjacency(keys, edges, i) ==
  IF i = 0 THEN [k \in Range(keys) |-> <<>>]
  ELSE
    LET adj == Adjacency(keys, edges, i - 1)
        e == edges[i]
        a1 == IF e.source \in DOMAIN adj
                THEN [adj EXCEPT ![e.source] = AddToSet(@, e.target)]
                ELSE adj
    IN IF e.target \in DOMAIN a1
         THEN [a1 EXCEPT ![e.target] = AddToSet(@, e.source)]
         ELSE a1

\* dfs(nodeId): st holds the visited set and the list of dfs calls made
RECURSIVE dfs(_, _, _)
RECURSIVE dfsNeighbors(_, _, _, _)
dfs(adj, nodeId, st) ==
  LET st1 == [visited |-> st.visited \cup {nodeId},
              calls |-> Append(st.calls, nodeId)]
  IN IF nodeId \in DOMAIN adj
       THEN dfsNeighbors(adj, adj[nodeId], 1, st1)
       ELSE st1

dfsNeighbors(adj, nbrs, i, st) ==
  IF i > Len(nbrs) THEN st
  ELSE IF nbrs[i] \in st.visited THEN dfsNeighbors(adj, nbrs, i + 1, st)
  ELSE dfsNeighbors(adj, nbrs, i + 1, dfs(adj, nbrs[i], st))

\* Object.keys(nodes).forEach: a dfs from every node not yet visited
RECURSIVE countClusters(_, _, _, _)
countClusters(adj, keys, i, acc) ==
  IF i > Len(keys) THEN acc
  ELSE IF keys[i] \in acc.st.visited THEN countClusters(adj, keys, i + 1, acc)
  ELSE countClusters(adj, keys, i + 1,
         [st |-> dfs(adj, keys[i], acc.st), clusters |-> acc.clusters + 1])

\* num / den rounded to 1 / scale, as Math.round(x * scale) / scale leaves it
Ratio(num, den, scale) ==
  IF den = 0 THEN Null ELSE (2 * scale * num + den) \div (2 * den)

\* a ratio computed without looking at its denominator
Unguarded(num, den, scale) == Ratio(num, den, scale)

\* den > 0 ? num / den : 0
Guarded(num, den, scale) == IF den > 0 THEN Ratio(num, den, scale) ELSE 0

RECURSIVE SumOf(_)
SumOf(q) == IF q = <<>> THEN 0 ELSE q[1] + SumOf(Tail(q))

calculateConnectivityStats(keys, edges) ==
  LET nodeCount == Len(keys)
      edgeCount == Len(edges)
      adj == Adjacency(keys, edges, Len(edges))
      totalDegree == SumOf([i \in DOMAIN keys |-> Len(adj[keys[i]])])
      maxEdges == (nodeCount * (nodeCount - 1)) \div 2
      r == countClusters(adj, keys, 1,
             [st |-> [visited |-> {}, calls |-> <<>>], clusters |-> 0])
  IN [averageDegree |-> Guarded(totalDegree, nodeCount, 10),
      density |-> Guarded(edgeCount, maxEdges, 1000),
      clusters |-> r.clusters,
      isolatedNodes |-> Cardinality({i \in DOMAIN keys : Len(adj[keys[i]]) = 0}),
      adjacency |-> adj,
      dfsCalls |-> r.st.calls]

\* calculateNodeStats over Object.values(nodes)
calculateNodeStats(nodeList) ==
  LET CountIf(P(_)) == Cardinality({i \in DOMAIN nodeList : P(nodeList[i])})
      IsBook(n) == n.type = "book"
      IsAuthor(n) == n.type = "author"
      IsTheme(n) == n.type = "theme"
      HasImage(n) == n.imageUrl
  IN [total |-> Len(nodeList),
      byType |-> [book |-> CountIf(IsBook), author |-> CountIf(IsAuthor),
                  theme |-> CountIf(IsTheme)],
      withImages |-> CountIf(HasImage)]

\* map.set(key, (map.get(key) || 0) + 1) on an insertion-ordered Map
Increment(m, key) ==
  IF \E i \in DOMAIN m : m[i].key = key
    THEN [i \in DOMAIN m |->
            IF m[i].key = key THEN [m[i] EXCEPT !.value = @ + 1] ELSE m[i]]
    ELSE Append(m, [key |-> key, value |-> 1])

\* connectionCount after the first i edges
RECURSIVE ConnectionCount(_, _)
ConnectionCount(edges, i) ==
  IF i = 0 THEN <<>>
  ELSE Increment(Increment(ConnectionCount(edges, i - 1), edges[i].source),
                 edges[i].target)

\* a sort by count that puts an entry before the earlier ones of its count
RECURSIVE sortUnstable(_)
sortUnstable(q) ==
  IF q = <<>> THEN q
  ELSE LET r == sortUnstable(SubSeq(q, 1, Len(q) - 1))
           x == q[Len(q)]
           k == Cardinality({i \in DOMAIN r : r[i].connections > x.connections})
       IN SubSeq(r, 1, k) \o <<x>> \o SubSeq(r, k + 1, Len(r))

\* Array.prototype.sort((a, b) => b.connections - a.connections): stable
RECURSIVE sortByConnections(_)
sortByConnections(q) ==
  IF q = <<>> THEN q
  ELSE LET r == sortByConnections(SubSeq(q, 1, Len(q) - 1))
           x == q[Len(q)]
           k == Cardinality({i \in DOMAIN r : r[i].connections >= x.connections})
       IN SubSeq(r, 1, k) \o <<x>> \o SubSeq(r, k + 1, Len(r))

Reverse(q) == [i \in DOMAIN q |-> q[Len(q) + 1 - i]]

\* q.slice(0, n) and q.slice(-n)
SliceFirst(q, n) == SubSeq(q, 1, IF Len(q) < n THEN Len(q) ELSE n)
SliceLast(q, n) == SubSeq(q, IF Len(q) < n THEN 1 ELSE Len(q) - n + 1, Len(q))

\* nodes[nodeId]?.label || nodeId
LabelOf(keys, nodes, nodeId) ==
  IF nodeId \in Range(keys) /\ nodes[nodeId].label # ""
    THEN nodes[nodeId].label ELSE nodeId

calculateEdgeStats(keys, nodes, edges) ==
  LET connectionCount == ConnectionCount(edges, Len(edges))
      nodeConnections ==
        sortByConnections(
          [i \in DOMAIN connectionCount |->
             [nodeId |-> connectionCount[i].key,
              label |-> LabelOf(keys, nodes, connectionCount[i].key),
              connections |-> connectionCount[i].value]])
      totalConnections ==
        SumOf([i \in DOMAIN connectionCount |-> connectionCount[i].value])
  IN [total |-> Len(edges),
      averageConnections |->
        Guarded(totalConnections, Len(connectionCount), 10),
      mostConnected |-> SliceFirst(nodeConnections, 5),
      leastConnected |-> Reverse(SliceLast(nodeConnections, 5))]

\* themeConnections.set(theme.label, connections): a later theme of the same
\* label overwrites the count and keeps the first one's place
SetEntry(m, key, value) ==
  IF \E i \in DOMAIN m : m[i].key = key
    THEN [i \in DOMAIN m |->
            IF m[i].key = key THEN [m[i] EXCEPT !.value = value] ELSE m[i]]
    ELSE Append(m, [key |-> key, value |-> value])

\* themeConnections after the first i nodes of nodeList
RECURSIVE ThemeConnections(_, _, _)
ThemeConnections(nodeList, edges, i) ==
  IF i = 0 THEN <<>>
  ELSE LET m == ThemeConnections(nodeList, edges, i - 1)
           theme == nodeList[i]
           connections ==
             Cardinality({j \in DOMAIN edges :
                            \/ edges[j].source = theme.label
                            \/ edges[j].target = theme.label})
       IN IF theme.type = "theme"
            THEN SetEntry(m, theme.label, connections)
            ELSE m

\* calculateContentStats: the ranking of themes (the series and the authors
\* are aggregates that nothing here reads)
calculateContentStats(nodeList, edges) ==
  LET themeConnections == ThemeConnections(nodeList, edges, Len(nodeList))
  IN [topThemes |->
        SliceFirst(
          sortByConnections(
            [i \in DOMAIN themeConnections |->
               [theme |-> themeConnections[i].key,
                connections |-> themeConnections[i].value]]),
          10)]

Min(S) == CHOOSE v \in S : \A w \in S : v <= w
Max(S) == CHOOSE v \in S : \A w \in S : v >= w

\* calculateTemporalStats: the years that are truthy (a year 0 is not)
calculateTemporalStats(nodeList) ==
  LET years == {nodeList[i].publicationYear : i \in DOMAIN nodeList}
                 \ {Null, 0}
  IN IF years = {}
       THEN [earliestYear |-> Null, latestYear |-> Null, yearRange |-> 0]
       ELSE [earliestYear |-> Min(years), latestYear |-> Max(years),
             yearRange |-> Max(years) - Min(years)]

GraphStats(keys, nodes, edges) ==
  LET nodeList == [i \in DOMAIN keys |-> nodes[keys[i]]]
  IN [done |-> TRUE,
      nodes |-> calculateNodeStats(nodeList),
      edges |-> calculateEdgeStats(keys, nodes, edges),
      connectivity |-> calculateConnectivityStats(keys, edges),
      content |-> calculateContentStats(nodeList, edges),
      temporal |-> calculateTemporalStats(nodeList)]

(***************************************************************************)
(* exportStatsAsCSV.  A line of the text is the sequence of its pieces:    *)
(* the literal parts of the template as they stand, a number as the        *)
(* characters JavaScript prints for it.                                    *)
(***************************************************************************)
Digit(d) == <<"0", "1", "2", "3", "4", "5", "6", "7", "8", "9">>[d + 1]

RECURSIVE Digits(_)
Digits(n) == IF n < 10 THEN <<Digit(n)>> ELSE Append(Digits(n \div 10), Digit(n % 10))

\* the digits after the point of f / scale, without trailing zeros
RECURSIVE FractionDigits(_, _)
FractionDigits(f, scale) ==
  IF f = 0 THEN <<>>
  ELSE <<Digit(f \div (scale \div 10))>>
         \o FractionDigits(f % (scale \div 10), scale \div 10)

\* `${v}` of a number: v is in units of 1 / scale, null prints as "null"
NumberToString(v, scale) ==
  IF v = Null THEN <<"null">>
  ELSE IF v % scale = 0 THEN Digits(v \div scale)
  ELSE Digits(v \div scale) \o <<".">> \o FractionDigits(v % scale, scale)

\* a row that separates key and value by a semicolon
RowSemicolon(key, v, scale) == <<key, ";">> \o NumberToString(v, scale)

\* `${key},${value}`
Row(key, v, scale) == <<key, ",">> \o NumberToString(v, scale)

exportStatsAsCSV(stats) ==
  <<<<"Graph Statistics Export">>,
    <<>>,
    <<"Node Statistics">>,
    Row("Total Nodes", stats.nodes.total, 1),
    Row("Books", stats.nodes.byType.book, 1),
    Row("Authors", stats.nodes.byType.author, 1),
    Row("Themes", stats.nodes.byType.theme, 1),
    Row("With Images", stats.nodes.withImages, 1),
    <<>>,
    <<"Edge Statistics">>,
    Row("Total Edges", stats.edges.total, 1),
    Row("Average Connections", stats.edges.averageConnections, 10),
    <<>>,
    <<"Connectivity">>,
    Row("Average Degree", stats.connectivity.averageDegree, 10),
    Row("Density", stats.connectivity.density, 1000),
    Row("Clusters", stats.connectivity.clusters, 1),
    <<>>>>
  \o (IF stats.temporal.earliestYear \notin {Null, 0}
        THEN <<<<"Temporal Range">>,
               Row("Earliest", stats.temporal.earliestYear, 1),
               Row("Latest", stats.temporal.latestYear, 1),
               Row("Range", stats.temporal.yearRange, 1) \o <<" years">>>>
        ELSE <<>>)

\* the lists of distinct ids: the key orders of a node record
DistinctSeqs(S) ==
  {q \in SeqsUpTo(S, Cardinality(S)) : \A i, j \in DOMAIN q : i # j => q[i] # q[j]}

\* the entries of q at the positions S, in the order of q
Pick(q, S) ==
  [n \in 1..Cardinality(S) |->
     q[CHOOSE i \in S : Cardinality({j \in S : j < i}) = n - 1]]

\* the edge lists of the wider graph: at most MaxRankEdges of RankEdges, in
\* the order written or in the opposite order
RankEdgeLists ==
  LET picks == {Pick(RankEdges, S) :
                  S \in {T \in SUBSET DOMAIN RankEdges :
                           Cardinality(T) <= MaxRankEdges}}
  IN picks \cup {Reverse(p) : p \in picks}

StatInputs ==
  [keys : DistinctSeqs(StatIds),
   edges : SeqsUpTo([source : StatIds, target : StatIds], MaxStatEdges),
   titled : BOOLEAN]
    \cup
  [keys : {RankKeys, <<"G", "D", "A">>},
   edges : RankEdgeLists,
   titled : BOOLEAN]

InitStats ==
  /\ InitEngine
  /\ IdleLate
  /\ IdleFind
  /\ IdleFilter
  /\ IdleRadius
  /\ IdleCache
  /\ statsIn \in StatInputs
  /\ statsOut = NoStatsOut
  /\ csv = <<>>

StatNodes == [id \in Range(statsIn.keys) |-> StatNode(id, statsIn.titled)]

calculateGraphStats ==
  /\ ~statsOut.done
  /\ statsOut' = GraphStats(statsIn.keys, StatNodes, statsIn.edges)
  /\ UNCHANGED <<engineVars, findVars, statsIn, csv, utilVars>>

\* the host removes edge i and the panel goes on showing the statistics it has
removeEdgeStale(i) ==
  /\ statsOut.done
  /\ i \in DOMAIN statsIn.edges
  /\ statsIn' = [statsIn EXCEPT
                   !.edges = SubSeq(@, 1, i - 1) \o SubSeq(@, i + 1, Len(@))]
  /\ csv' = <<>>
  /\ UNCHANGED <<engineVars, findVars, statsOut, utilVars>>

\* the host removes edge i and the panel, whose statistics are memoised on
\* (nodes, edges), computes them again
removeEdge(i) ==
  /\ statsOut.done
  /\ i \in DOMAIN statsIn.edges
  /\ statsIn' = [statsIn EXCEPT
                   !.edges = SubSeq(@, 1, i - 1) \o SubSeq(@, i + 1, Len(@))]
  /\ statsOut' = GraphStats(statsIn'.keys, StatNodes, statsIn'.edges)
  /\ csv' = <<>>
  /\ UNCHANGED <<engineVars, findVars, utilVars>>

handleExportCSV ==
  /\ statsOut.done
  /\ csv = <<>>
  /\ csv' = exportStatsAsCSV(statsOut)
  /\ UNCHANGED <<engineVars, findVars, statsIn, statsOut, utilVars>>

NextStats ==
  \/ calculateGraphStats
  \/ \E i \in 1..MaxRankEdges + MaxStatEdges : removeEdge(i)
  \/ handleExportCSV

SpecStats == InitStats /\ [][NextStats]_vars

\* connected components, by definition: the edges with both endpoints among
\* the nodes, taken in both directions, closed under composition
Present(e) == e.source \in Range(statsIn.keys) /\ e.target \in Range(statsIn.keys)

Linked(a, b) ==
  \E i \in DOMAIN statsIn.edges :
    /\ Present(statsIn.edges[i])
    /\ {statsIn.edges[i].source, statsIn.edges[i].target} = {a, b}

RECURSIVE ReachableFrom(_)
ReachableFrom(S) ==
  LET T == S \cup {b \in Range(statsIn.keys) : \E a \in S : Linked(a, b)}
  IN IF T = S THEN S ELSE ReachableFrom(T)

Components == {ReachableFrom({n}) : n \in Range(statsIn.keys)}

Complete ==
  \A a, b \in Range(statsIn.keys) : a # b => Linked(a, b)

Occurrences(q, v) == Cardinality({i \in DOMAIN q : q[i] = v})

\* C10: clusters is the number of connected components of the undirected
\* graph over the nodes, every node is visited by exactly one dfs call, the
\* count is the node count without edges and 1 for a complete graph.
C10_ClustersAreComponents ==
  statsOut.done =>
    /\ statsOut.connectivity.clusters = Cardinality(Components)
    /\ \A n \in Range(statsIn.keys) : Occurrences(statsOut.connectivity.dfsCalls, n) = 1
    /\ statsIn.edges = <<>> => statsOut.connectivity.clusters = Len(statsIn.keys)
    /\ (Complete /\ Len(statsIn.keys) >= 1) => statsOut.connectivity.clusters = 1

\* two nodes that are joined only through an id that is no node stay two
\* clusters
C10_Witness ==
  /\ statsOut.done
  /\ Len(statsIn.keys) = 2
  /\ statsOut.connectivity.clusters = 2
  /\ \E i, j \in DOMAIN statsIn.edges :
       /\ statsIn.edges[i].source # statsIn.edges[j].source
       /\ statsIn.edges[i].source \in Range(statsIn.keys)
       /\ statsIn.edges[j].source \in Range(statsIn.keys)
       /\ statsIn.edges[i].target = statsIn.edges[j].target
       /\ statsIn.edges[i].target \notin Range(statsIn.keys)

\* the ids that occur as an endpoint of some edge
Endpoints ==
  {statsIn.edges[i].source : i \in DOMAIN statsIn.edges}
    \cup {statsIn.edges[i].target : i \in DOMAIN statsIn.edges}

Dangling(e) == ~Present(e)

\* C11: for every node record and edge list the statistics calculateGraphStats
\* returns have density, averageDegree and averageConnections that are
\* numbers, 0 whenever the denominator (the possible pairs of nodes, the
\* nodes, the connected ids) is 0.
C11_RatiosAreFinite ==
  statsOut.done =>
    LET n == Len(statsIn.keys)
    IN /\ statsOut.connectivity.density # Null
       /\ statsOut.connectivity.averageDegree # Null
       /\ statsOut.edges.averageConnections # Null
       /\ n <= 1 => statsOut.connectivity.density = 0
       /\ n = 0 => statsOut.connectivity.averageDegree = 0
       /\ Endpoints = {} => statsOut.edges.averageConnections = 0

\* a single node with a self-loop and a dangling edge: no pair of nodes, so
\* the density has denominator 0
C11_Witness ==
  /\ statsOut.done
  /\ Len(statsIn.keys) = 1
  /\ \E i, j \in DOMAIN statsIn.edges :
       /\ statsIn.edges[i].source = statsIn.edges[i].target
       /\ Present(statsIn.edges[i])
       /\ Dangling(statsIn.edges[j])
  /\ statsOut.connectivity.density = 0

\* the nodes joined to node n by an edge whose two endpoints are nodes
PresentNeighbours(n) == {b \in Range(statsIn.keys) : Linked(n, b)}

\* the number of endpoints of edges that are nodes
PresentEndpoints ==
  Cardinality({i \in DOMAIN statsIn.edges :
                 statsIn.edges[i].source \in Range(statsIn.keys)})
    + Cardinality({i \in DOMAIN statsIn.edges :
                     statsIn.edges[i].target \in Range(statsIn.keys)})

RankedIds(q) == {q[i].nodeId : i \in DOMAIN q}

\* C12: an endpoint id that is no key of the node record is in neither
\* ranking, is not counted in averageConnections, and is in no neighbour set:
\* averageDegree and isolatedNodes are those of the edges between nodes.
C12_AbsentIdsNotCounted ==
  statsOut.done =>
    LET keys == Range(statsIn.keys)
        connected == Endpoints \cap keys
        degrees == Cardinality({p \in keys \X keys : Linked(p[1], p[2])})
    IN /\ RankedIds(statsOut.edges.mostConnected) \subseteq keys
       /\ RankedIds(statsOut.edges.leastConnected) \subseteq keys
       /\ statsOut.edges.averageConnections =
            Guarded(PresentEndpoints, Cardinality(connected), 10)
       /\ \A n \in keys :
            Range(statsOut.connectivity.adjacency[n]) \subseteq keys
       /\ statsOut.connectivity.averageDegree =
            Guarded(degrees, Cardinality(keys), 10)
       /\ statsOut.connectivity.isolatedNodes =
            Cardinality({n \in keys : PresentNeighbours(n) = {}})

Joins(e, a, b) == {e.source, e.target} = {a, b}

\* nodes A (book), B (author), C (theme) in any key order
ScenarioNodes(in) == Len(in.keys) = 3 /\ Range(in.keys) = {"A", "B", "C"}

\* edges A-B and A-C, in either order and direction
ScenarioGraph(in) ==
  /\ ScenarioNodes(in)
  /\ Len(in.edges) = 2
  /\ \E i, j \in 1..2 : /\ i # j
                        /\ Joins(in.edges[i], "A", "B")
                        /\ Joins(in.edges[j], "A", "C")

\* the same nodes with edge A-B alone
ScenarioCut(in) ==
  /\ ScenarioNodes(in)
  /\ Len(in.edges) = 1
  /\ Joins(in.edges[1], "A", "B")

\* C13: for nodes A, B, C and edges A-B, A-C the statistics are 3 nodes,
\* 2 edges, 1 cluster, no isolated node and A first in mostConnected with 2
\* connections; once A-C is removed and the statistics are computed again
\* they are 2 clusters and 1 isolated node.
C13_ExampleScenario ==
  [][/\ (statsOut'.done /\ ScenarioGraph(statsIn')) =>
          /\ statsOut'.nodes.total = 3
          /\ statsOut'.edges.total = 2
          /\ statsOut'.connectivity.clusters = 1
          /\ statsOut'.connectivity.isolatedNodes = 0
          /\ statsOut'.edges.mostConnected[1].nodeId = "A"
          /\ statsOut'.edges.mostConnected[1].connections = 2
     /\ (statsOut.done /\ ScenarioGraph(statsIn) /\ ScenarioCut(statsIn')) =>
          /\ statsOut'.done
          /\ statsOut'.connectivity.clusters = 2
          /\ statsOut'.connectivity.isolatedNodes = 1]_vars

\* the statistics of the scenario once A-C is gone
C13_Witness ==
  /\ statsOut.done
  /\ ScenarioCut(statsIn)
  /\ statsOut.nodes.total = 3
  /\ statsOut.edges.total = 1
  /\ statsOut.connectivity.clusters = 2
  /\ statsOut.connectivity.isolatedNodes = 1

\* the number of times id is an endpoint of an edge
EndpointCount(id) ==
  Cardinality({i \in DOMAIN statsIn.edges : statsIn.edges[i].source = id})
    + Cardinality({i \in DOMAIN statsIn.edges : statsIn.edges[i].target = id})

\* where id first appears in the edge list: source before target, edge by edge
FirstAppearance(id) ==
  Min({2 * i - 1 : i \in {j \in DOMAIN statsIn.edges : statsIn.edges[j].source = id}}
        \cup {2 * i : i \in {j \in DOMAIN statsIn.edges : statsIn.edges[j].target = id}})

\* a ranks before b: more connections, or as many and an earlier appearance
RanksBefore(a, b) ==
  \/ EndpointCount(a) > EndpointCount(b)
  \/ /\ EndpointCount(a) = EndpointCount(b)
     /\ FirstAppearance(a) < FirstAppearance(b)

\* the connected id of rank k (from 1)
Ranked(k) ==
  CHOOSE a \in Endpoints : Cardinality({b \in Endpoints : RanksBefore(b, a)}) = k - 1

\* C14: mostConnected is the first 5 of the connected ids ranked by count
\* descending, ties by first appearance in the edge list; leastConnected is
\* the last 5 of that ranking, last first, so ascending by count; neither
\* has more than 5 entries.
C14_RankingsOfFive ==
  statsOut.done =>
    LET n == Cardinality(Endpoints)
        most == statsOut.edges.mostConnected
        least == statsOut.edges.leastConnected
        len == IF n < 5 THEN n ELSE 5
    IN /\ Len(most) = len
       /\ Len(least) = len
       /\ \A i \in 1..len :
            /\ most[i].nodeId = Ranked(i)
            /\ most[i].connections = EndpointCount(Ranked(i))
            /\ least[i].nodeId = Ranked(n + 1 - i)
            /\ least[i].connections = EndpointCount(Ranked(n + 1 - i))
       /\ \A i, j \in 1..len :
            i < j => /\ most[i].connections >= most[j].connections
                     /\ least[i].connections <= least[j].connections

\* seven connected ids, one of them with two connections: each list keeps
\* five, and the two share three of them
C14_Witness ==
  /\ statsOut.done
  /\ Cardinality(Endpoints) = 7
  /\ Len(statsOut.edges.mostConnected) = 5
  /\ statsOut.edges.mostConnected[1].connections = 2
  /\ statsOut.edges.mostConnected[2].connections = 1
  /\ Cardinality(RankedIds(statsOut.edges.mostConnected)
                   \cap RankedIds(statsOut.edges.leastConnected)) = 3

\* the number of edges with node id at one end or both
EdgesAt(id) ==
  Cardinality({i \in DOMAIN statsIn.edges :
                 \/ statsIn.edges[i].source = id
                 \/ statsIn.edges[i].target = id})

Themes == {id \in Range(statsIn.keys) : StatNodes[id].type = "theme"}

\* C15: every theme node is reported in topThemes with the number of edges
\* that have its id as source or target; topThemes is in descending order of
\* that number and has at most 10 entries.
C15_ThemesCountedById ==
  statsOut.done =>
    LET top == statsOut.content.topThemes
    IN /\ \A id \in Themes :
            \E i \in DOMAIN top :
              /\ top[i].theme = StatNodes[id].label
              /\ top[i].connections = EdgesAt(id)
       /\ \A i, j \in DOMAIN top :
            i < j => top[i].connections >= top[j].connections
       /\ Len(top) <= 10

\* reading a row back: the text before the first comma, the text after it,
\* and the number that text spells
FirstComma(line) == Min({i \in DOMAIN line : line[i] = ","})
HasComma(line) == \E i \in DOMAIN line : line[i] = ","
KeyOf(line) == SubSeq(line, 1, FirstComma(line) - 1)
ValueOf(line) == SubSeq(line, FirstComma(line) + 1, Len(line))

DigitChars == {Digit(d) : d \in 0..9}
DigitValue(c) == CHOOSE d \in 0..9 : Digit(d) = c

RECURSIVE ParseDigits(_)
ParseDigits(chars) ==
  IF Len(chars) = 1 THEN DigitValue(chars[1])
  ELSE 10 * ParseDigits(SubSeq(chars, 1, Len(chars) - 1))
         + DigitValue(chars[Len(chars)])

ParseNumber(chars) ==
  IF chars # <<>> /\ Range(chars) \subseteq DigitChars
    THEN ParseDigits(chars) ELSE Null

RowsOf(key) == {i \in DOMAIN csv : HasComma(csv[i]) /\ KeyOf(csv[i]) = <<key>>}

Mentions(key) == {i \in DOMAIN csv : key \in Range(csv[i])}

\* C19: in the text exported for the statistics, 'Total Nodes' and 'Total
\* Edges' are each on exactly one line, and the number after the comma on
\* that line is nodes.total, respectively edges.total.
C19_CsvRoundTrip ==
  csv # <<>> =>
    /\ Cardinality(RowsOf("Total Nodes")) = 1
    /\ Cardinality(Mentions("Total Nodes")) = 1
    /\ \A i \in RowsOf("Total Nodes") :
         ParseNumber(ValueOf(csv[i])) = statsOut.nodes.total
    /\ Cardinality(RowsOf("Total Edges")) = 1
    /\ Cardinality(Mentions("Total Edges")) = 1
    /\ \A i \in RowsOf("Total Edges") :
         ParseNumber(ValueOf(csv[i])) = statsOut.edges.total

\* an export with the temporal section and fractional ratios
C19_Witness ==
  /\ csv # <<>>
  /\ statsOut.nodes.total = 7
  /\ statsOut.edges.total = 4
  /\ statsOut.temporal.earliestYear = 1815
  /\ statsOut.connectivity.density = 190
  /\ Len(csv) = 22


(***************************************************************************)
(* The filter engine (src/unnamed/part_009): applyCriterion, applyFilters  *)
(* and filterNodes.  nodes is a record keyed by node id, criteria a list.  *)
(* applyCriterion is modelled by the truthiness of what it returns, which  *)
(* is all that criteria.every looks at.  A text is a string of the model;  *)
(* toLowerCase and includes are tabulated for the texts that occur.        *)
(***************************************************************************)
MaxCriteria == 2

FilterKeys == <<"n1", "n2", "n3", "n4", "n5">>

\* a text field that is undefined
NoText == "<undefined>"

FilterNode(id) ==
  CASE id = "n1" -> [id |-> id, type |-> "book", publicationYear |-> 1900,
                     series |-> "Dune", description |-> "A Desert Epic"]
    [] id = "n2" -> [id |-> id, type |-> "book", publicationYear |-> Null,
                     series |-> NoText, description |-> NoText]
    [] id = "n3" -> [id |-> id, type |-> "author", publicationYear |-> 0,
                     series |-> NoText, description |-> ""]
    [] id = "n4" -> [id |-> id, type |-> "theme", publicationYear |-> 1950,
                     series |-> "Emma", description |-> "war"]
    [] OTHER -> [id |-> id, type |-> "character", publicationYear |-> 0 - 700,
                 series |-> "", description |-> "Epic of war"]

Criterion(enabled, type, conf) ==
  [enabled |-> enabled, type |-> type, config |-> conf]

Types(book, author, theme) ==
  [types |-> [book |-> book, author |-> author, theme |-> theme]]

Years(mode, minYear, maxYear, exactYear) ==
  [mode |-> mode, minYear |-> minYear, maxYear |-> maxYear,
   exactYear |-> exactYear]

YearConfigs ==
  {Years("range", 1900, 1950, Null), Years("range", Null, 1950, Null),
   Years("range", 0, 2000, Null), Years("range", 0 - 800, Null, Null),
   Years("before", Null, 1950, Null), Years("before", Null, Null, Null),
   Years("after", 1900, Null, Null), Years("after", Null, Null, Null),
   Years("exact", Null, Null, 1900), Years("exact", Null, Null, 0),
   Years("exact", Null, Null, Null)}

CriteriaPool ==
  {Criterion(en, "nodeType", c) :
     en \in BOOLEAN, c \in {Types(TRUE, FALSE, FALSE), Types(FALSE, TRUE, TRUE)}}
    \cup {Criterion(TRUE, "publicationYear", c) : c \in YearConfigs}
    \cup {Criterion(FALSE, "publicationYear", Years("exact", Null, Null, 1900))}
    \cup {Criterion(TRUE, "series", [mode |-> m, seriesNames |-> <<"Dune">>]) :
            m \in {"include", "exclude"}}
    \cup {Criterion(TRUE, "description",
                    [keywords |-> <<"Epic", "war">>, matchMode |-> m,
                     caseSensitive |-> cs]) :
            m \in {"any", "all"}, cs \in BOOLEAN}
    \cup {Criterion(TRUE, "custom", [filterFunction |-> "() => false"])}

\* text.toLowerCase()
toLowerCase(text) ==
  CASE text = "A Desert Epic" -> "a desert epic"
    [] text = "Epic of war" -> "epic of war"
    [] text = "Epic" -> "epic"
    [] OTHER -> text

\* text.includes(search)
includes(text, search) ==
  \/ search = ""
  \/ text = search
  \/ <<text, search>> \in
       {<<"a desert epic", "epic">>, <<"epic of war", "epic">>,
        <<"epic of war", "war">>, <<"A Desert Epic", "Epic">>,
        <<"Epic of war", "Epic">>, <<"Epic of war", "war">>}

\* v ?? d
Default(v, d) == IF v = Null THEN d ELSE v

\* the inner switch on conf.mode
matchesYear(year, conf) ==
  CASE conf.mode = "range" ->
         /\ year >= Default(conf.minYear, 0)
         /\ year <= Default(conf.maxYear, 9999)
    [] conf.mode = "before" -> year < Default(conf.maxYear, 9999)
    [] conf.mode = "after" -> year > Default(conf.minYear, 0)
    [] conf.mode = "exact" -> conf.exactYear # Null /\ year = conf.exactYear
    [] OTHER -> TRUE

\* a year criterion that lets a node without a year through
yearPassByDefault(nd, conf) ==
  IF Falsy(nd.publicationYear) THEN TRUE
  ELSE matchesYear(nd.publicationYear, conf)

\* case 'publicationYear': if (!year) return false, then the mode
yearCriterion(nd, conf) ==
  IF Falsy(nd.publicationYear) THEN FALSE
  ELSE matchesYear(nd.publicationYear, conf)

descriptionCriterion(nd, conf) ==
  LET description ==
        toLowerCase(IF nd.description = NoText THEN "" ELSE nd.description)
      Matches(keyword) ==
        includes(description,
                 IF conf.caseSensitive THEN keyword ELSE toLowerCase(keyword))
  IN IF conf.matchMode = "all"
       THEN \A i \in DOMAIN conf.keywords : Matches(conf.keywords[i])
       ELSE \E i \in DOMAIN conf.keywords : Matches(conf.keywords[i])

seriesCriterion(nd, conf) ==
  LET hasSeries == /\ nd.series # NoText
                   /\ nd.series # ""
                   /\ nd.series \in Range(conf.seriesNames)
  IN IF conf.mode = "include" THEN hasSeries ELSE ~hasSeries

applyCriterion(nd, criterion) ==
  IF ~criterion.enabled THEN TRUE
  ELSE CASE criterion.type = "nodeType" ->
              IF nd.type \in DOMAIN criterion.config.types
                THEN criterion.config.types[nd.type] ELSE TRUE
         [] criterion.type = "publicationYear" ->
              yearCriterion(nd, criterion.config)
         [] criterion.type = "series" -> seriesCriterion(nd, criterion.config)
         [] criterion.type = "description" ->
              descriptionCriterion(nd, criterion.config)
         [] OTHER -> TRUE

\* criteria.some instead of criteria.every
applyFiltersAny(nd, criteria) ==
  \E i \in DOMAIN criteria : applyCriterion(nd, criteria[i])

applyFilters(nd, criteria) ==
  \A i \in DOMAIN criteria : applyCriterion(nd, criteria[i])

\* the entries of filtered, in the order they were assigned
RECURSIVE filterFrom(_, _, _, _)
filterFrom(i, keys, nodes, criteria) ==
  IF i > Len(keys) THEN <<>>
  ELSE IF applyFilters(nodes[keys[i]], criteria)
    THEN <<[id |-> keys[i], node |-> nodes[keys[i]]]>>
           \o filterFrom(i + 1, keys, nodes, criteria)
    ELSE filterFrom(i + 1, keys, nodes, criteria)

filterNodes(keys, nodes, criteria) ==
  [done |-> TRUE, filtered |-> filterFrom(1, keys, nodes, criteria)]

FilterInputs ==
  [keys : {<<>>, FilterKeys, <<"n5", "n1">>},
   criteria : SeqsUpTo(CriteriaPool, MaxCriteria)]

InitFilter ==
  /\ InitEngine
  /\ IdleLate
  /\ IdleFind
  /\ IdleStats
  /\ IdleRadius
  /\ IdleCache
  /\ filterIn \in FilterInputs
  /\ filterOut = NoFilterOut

FilterNodes == [id \in Range(filterIn.keys) |-> FilterNode(id)]

callFilterNodes ==
  /\ ~filterOut.done
  /\ filterOut' = filterNodes(filterIn.keys, FilterNodes, filterIn.criteria)
  /\ UNCHANGED <<engineVars, findVars, statsVars, lateVars, filterIn, radiusVars, cacheVars>>

NextFilter == callFilterNodes

SpecFilter == InitFilter /\ [][NextFilter]_vars

FilteredIds == {filterOut.filtered[i].id : i \in DOMAIN filterOut.filtered}

EnabledCriteria == {i \in DOMAIN filterIn.criteria : filterIn.criteria[i].enabled}

\* C16: filterNodes returns exactly the nodes that pass applyCriterion for
\* every enabled criterion, each once and as the object passed in; without
\* an enabled criterion the result is the input, key by key.
C16_FilterIsConjunction ==
  filterOut.done =>
    LET passing ==
          {id \in Range(filterIn.keys) :
             \A i \in EnabledCriteria :
               applyCriterion(FilterNodes[id], filterIn.criteria[i])}
    IN /\ FilteredIds = passing
       /\ Len(filterOut.filtered) = Cardinality(passing)
       /\ \A i \in DOMAIN filterOut.filtered :
            filterOut.filtered[i].node = FilterNodes[filterOut.filtered[i].id]
       /\ EnabledCriteria = {} =>
            filterOut.filtered =
              [i \in DOMAIN filterIn.keys |->
                 [id |-> filterIn.keys[i], node |-> FilterNodes[filterIn.keys[i]]]]

\* two enabled criteria and a disabled-free list: some node passes the first
\* and not the second, and the result is neither empty nor everything
C16_Witness ==
  /\ filterOut.done
  /\ Len(filterIn.criteria) = 2
  /\ EnabledCriteria = {1, 2}
  /\ filterIn.keys = FilterKeys
  /\ \E id \in Range(filterIn.keys) :
       /\ applyCriterion(FilterNodes[id], filterIn.criteria[1])
       /\ ~applyCriterion(FilterNodes[id], filterIn.criteria[2])
  /\ Len(filterOut.filtered) \in 1..4

\* what the bounds of a year criterion ask of a year; a bound that is not
\* given stands for 0 (minYear) or 9999 (maxYear)
SatisfiesBounds(year, c) ==
  LET lo == IF c.minYear = Null THEN 0 ELSE c.minYear
      hi == IF c.maxYear = Null THEN 9999 ELSE c.maxYear
  IN \/ c.mode = "range" /\ lo <= year /\ year <= hi
     \/ c.mode = "before" /\ year < hi
     \/ c.mode = "after" /\ year > lo
     \/ c.mode = "exact" /\ c.exactYear # Null /\ year = c.exactYear

YearCriteria ==
  {i \in EnabledCriteria : filterIn.criteria[i].type = "publicationYear"}

\* the nodes a year criterion lets through, given which nodes have a year
YearDecides(HasYear(_)) ==
  filterOut.done =>
    /\ \A i \in YearCriteria, id \in FilteredIds :
         /\ HasYear(FilterNodes[id])
         /\ SatisfiesBounds(FilterNodes[id].publicationYear,
                            filterIn.criteria[i].config)
    /\ (Len(filterIn.criteria) = 1 /\ YearCriteria = {1}) =>
         FilteredIds =
           {id \in Range(filterIn.keys) :
              /\ HasYear(FilterNodes[id])
              /\ SatisfiesBounds(FilterNodes[id].publicationYear,
                                 filterIn.criteria[1].config)}

YearGiven(nd) == nd.publicationYear # Null
YearNonZero(nd) == nd.publicationYear # Null /\ nd.publicationYear # 0

MaxDepth == 10

NodeRadii == {1, 8, 20}
RadiusTypes ==
  {"author", "book", "genre", "theme", "character", "movement", "place"}

InitRadius ==
  /\ node = [n \in NodeIds |-> HostNode(n)]
  /\ edge = [e \in EdgeIds |-> HostEdge(e)]
  /\ config \in {[DefaultConfig EXCEPT !.nodeRadius = r] : r \in NodeRadii}
  /\ simulation = 0
  /\ sim = NoSim
  /\ created = 0
  /\ ops = 0
  /\ raised = FALSE
  /\ via = "none"
  /\ destroyed = FALSE
  /\ drag = [phase |-> "idle", node |-> "a", x |-> Null, y |-> Null]
  /\ registered = 0
  /\ invoked = Null
  /\ IdleFind
  /\ IdleStats
  /\ IdleFilter
  /\ IdleCache
  /\ IdleLate
  /\ radiusIn \in [type : RadiusTypes, depth : {0}]
  /\ radiusOut = NoRadiusOut

\* the radius of the node at its depth; the next call is one level deeper
callGetNodeRadius ==
  /\ radiusIn.depth <= MaxDepth
  /\ radiusOut' = [done |-> TRUE, depth |-> radiusIn.depth,
                   radius |-> getNodeRadius(radiusIn)]
  /\ radiusIn' = [radiusIn EXCEPT !.depth = @ + 1]
  /\ UNCHANGED <<engineVars, findVars, statsVars, lateVars, filterVars, cacheVars>>

NextRadius == callGetNodeRadius

SpecRadius == InitRadius /\ [][NextRadius]_vars

\* C18: for a positive nodeRadius and a fixed type, the radius at depth
\* d + 1 is never larger than the radius at depth d, and it goes on falling
\* past depth 3: nothing clamps it.
C18_RadiusFallsWithDepth ==
  [][radiusOut.done =>
       /\ radiusOut'.depth = radiusOut.depth + 1
       /\ radiusOut'.radius <= radiusOut.radius
       /\ radiusOut'.depth > 3 => radiusOut'.radius < radiusOut.radius]_vars

\* past depth 8 the radius has fallen below 0
C18_Witness ==
  /\ radiusOut.done
  /\ radiusOut.depth = 9
  /\ radiusOut.radius < 0


(***************************************************************************)
(* LRUCache (src/utils/validation.js).  A JavaScript Map is the sequence   *)
(* of its entries in insertion order.  Time is Date.now() in units of the  *)
(* model; the cache is new LRUCache({ max: CacheMax, ttl: Ttl }).          *)
(***************************************************************************)
MaxTime == 2

CacheMax == 2
Ttl == 1
CacheKeys == {"k1", "k2", "k3"}
CacheValues == {"v1", "v2"}

\* what get returns for a key it does not find
Undefined == "<undefined>"

MapKeys(m) == {m[i].key : i \in DOMAIN m}
MapHas(m, key) == key \in MapKeys(m)
MapGet(m, key) == (CHOOSE e \in Range(m) : e.key = key).value
MapDelete(m, key) == SelectSeq(m, LAMBDA e : e.key # key)
MapSet(m, key, value) ==
  IF MapHas(m, key)
    THEN [i \in DOMAIN m |->
            IF m[i].key = key THEN [key |-> key, value |-> value] ELSE m[i]]
    ELSE Append(m, [key |-> key, value |-> value])

\* the key moves to the end of the keys used
Touch(key) == Append(SelectSeq(used, LAMBDA k : k # key), key)

CacheOut(op, key, found, value, evicted) ==
  [op |-> op, key |-> key, found |-> found, value |-> value,
   evicted |-> evicted]

\* Date.now() - timestamp > this.ttl
Expired(key) == now - MapGet(timestamps, key) > Ttl

\* a get that returns the value and leaves the entry where it is
getWithoutMoving(key) ==
  /\ IF ~MapHas(cache, key)
       THEN /\ cacheOut' = CacheOut("get", key, FALSE, Undefined, Undefined)
            /\ UNCHANGED <<cache, timestamps, used, stored>>
     ELSE IF Expired(key)
       THEN /\ cache' = MapDelete(cache, key)
            /\ timestamps' = MapDelete(timestamps, key)
            /\ stored' = MapDelete(stored, key)
            /\ cacheOut' = CacheOut("get", key, FALSE, Undefined, Undefined)
            /\ UNCHANGED used
     ELSE /\ timestamps' = MapSet(timestamps, key, now)
          /\ used' = Touch(key)
          /\ cacheOut' = CacheOut("get", key, TRUE, MapGet(cache, key), Undefined)
          /\ UNCHANGED <<cache, stored>>
  /\ UNCHANGED <<engineVars, findVars, statsVars, lateVars, filterVars, radiusVars, now>>

get(key) ==
  /\ IF ~MapHas(cache, key)
       THEN /\ cacheOut' = CacheOut("get", key, FALSE, Undefined, Undefined)
            /\ UNCHANGED <<cache, timestamps, used, stored>>
     ELSE IF Expired(key)
       THEN /\ cache' = MapDelete(cache, key)
            /\ timestamps' = MapDelete(timestamps, key)
            /\ stored' = MapDelete(stored, key)
            /\ cacheOut' = CacheOut("get", key, FALSE, Undefined, Undefined)
            /\ UNCHANGED used
     ELSE /\ cache' = MapSet(MapDelete(cache, key), key, MapGet(cache, key))
          /\ timestamps' = MapSet(timestamps, key, now)
          /\ used' = Touch(key)
          /\ cacheOut' = CacheOut("get", key, TRUE, MapGet(cache, key), Undefined)
          /\ UNCHANGED stored
  /\ UNCHANGED <<engineVars, findVars, statsVars, lateVars, filterVars, radiusVars, now>>

set(key, value) ==
  LET full == ~MapHas(cache, key) /\ Len(cache) >= CacheMax
      firstKey == cache[1].key
      c1 == IF MapHas(cache, key) THEN MapDelete(cache, key)
            ELSE IF full THEN MapDelete(cache, firstKey)
            ELSE cache
      t1 == IF full THEN MapDelete(timestamps, firstKey) ELSE timestamps
  IN /\ cache' = MapSet(c1, key, value)
     /\ timestamps' = MapSet(t1, key, now)
     /\ stored' = MapSet(IF full THEN MapDelete(stored, firstKey) ELSE stored,
                         key, now)
     /\ used' = Touch(key)
     /\ cacheOut' = CacheOut("set", key, FALSE, Undefined,
                             IF full THEN firstKey ELSE Undefined)
     /\ UNCHANGED <<engineVars, findVars, statsVars, lateVars, filterVars, radiusVars, now>>

has(key) ==
  /\ IF ~MapHas(cache, key)
       THEN /\ cacheOut' = CacheOut("has", key, FALSE, Undefined, Undefined)
            /\ UNCHANGED <<cache, timestamps, stored>>
     ELSE IF Expired(key)
       THEN /\ cache' = MapDelete(cache, key)
            /\ timestamps' = MapDelete(timestamps, key)
            /\ stored' = MapDelete(stored, key)
            /\ cacheOut' = CacheOut("has", key, FALSE, Undefined, Undefined)
     ELSE /\ cacheOut' = CacheOut("has", key, TRUE, Undefined, Undefined)
          /\ UNCHANGED <<cache, timestamps, stored>>
  /\ UNCHANGED <<engineVars, findVars, statsVars, lateVars, filterVars, radiusVars, now,
                 used>>

\* delete(key)
delete(key) ==
  /\ cache' = MapDelete(cache, key)
  /\ timestamps' = MapDelete(timestamps, key)
  /\ stored' = MapDelete(stored, key)
  /\ cacheOut' = CacheOut("delete", key, FALSE, Undefined, Undefined)
  /\ UNCHANGED <<engineVars, findVars, statsVars, lateVars, filterVars, radiusVars, now,
                 used>>

clear ==
  /\ cache' = <<>>
  /\ timestamps' = <<>>
  /\ stored' = <<>>
  /\ cacheOut' = CacheOut("clear", Undefined, FALSE, Undefined, Undefined)
  /\ UNCHANGED <<engineVars, findVars, statsVars, lateVars, filterVars, radiusVars, now,
                 used>>

\* get size(): cleanExpired(), then the size of the Map
size ==
  LET expired == {k \in MapKeys(timestamps) : Expired(k)}
  IN /\ cache' = SelectSeq(cache, LAMBDA e : e.key \notin expired)
     /\ timestamps' = SelectSeq(timestamps, LAMBDA e : e.key \notin expired)
     /\ stored' = SelectSeq(stored, LAMBDA e : e.key \notin expired)
     /\ cacheOut' = CacheOut("size", Undefined, FALSE, Undefined, Undefined)
     /\ UNCHANGED <<engineVars, findVars, statsVars, lateVars, filterVars, radiusVars,
                    now, used>>

\* time passes
advance ==
  /\ now < MaxTime
  /\ now' = now + 1
  /\ UNCHANGED <<engineVars, findVars, statsVars, lateVars, filterVars, radiusVars,
                 cache, timestamps, used, cacheOut, stored>>

InitCache ==
  /\ InitEngine
  /\ IdleLate
  /\ IdleFind
  /\ IdleStats
  /\ IdleFilter
  /\ IdleRadius
  /\ IdleCache

NextCache ==
  \/ \E key \in CacheKeys : get(key)
  \/ \E key \in CacheKeys, value \in CacheValues : set(key, value)
  \/ \E key \in CacheKeys : has(key)
  \/ \E key \in CacheKeys : delete(key)
  \/ clear
  \/ size
  \/ advance

SpecCache == InitCache /\ [][NextCache]_vars

\* the key in the cache whose last set or successful get is the oldest
LeastRecentlyUsed ==
  LET Rank(k) == CHOOSE i \in DOMAIN used : used[i] = k
  IN CHOOSE k \in MapKeys(cache) :
       \A other \in MapKeys(cache) : Rank(k) <= Rank(other)

\* C20: a set of an absent key into a full cache removes the entry least
\* recently stored by set or read by a successful get, and nothing else; a
\* get hit makes its key the most recently used; the cache never holds more
\* than max entries.
C20_EvictsLeastRecentlyUsed ==
  [][/\ Len(cache') <= CacheMax
     /\ \A key \in CacheKeys, value \in CacheValues :
          (set(key, value) /\ ~MapHas(cache, key) /\ Len(cache) = CacheMax) =>
            /\ MapKeys(cache') = (MapKeys(cache) \ {LeastRecentlyUsed}) \cup {key}
            /\ \A k \in MapKeys(cache) \ {LeastRecentlyUsed} :
                 MapGet(cache', k) = MapGet(cache, k)
     /\ \A key \in CacheKeys :
          (get(key) /\ cacheOut'.found) =>
            /\ MapKeys(cache') = MapKeys(cache)
            /\ cache'[Len(cache')].key = key
            /\ used'[Len(used')] = key]_vars

\* k1 was last stored or read after k2, at a later time than the cache was
\* built: the set of k3 into the full cache removed k2
C20_Witness ==
  /\ cacheOut.op = "set"
  /\ cacheOut.key = "k3"
  /\ cacheOut.evicted = "k2"
  /\ used = <<"k2", "k1", "k3">>
  /\ MapKeys(cache) = {"k1", "k3"}
  /\ MapGet(timestamps, "k1") > 0

\* more than ttl has passed since the set that stored the entry of key
StoredLongAgo(key) == MapHas(stored, key) /\ now - MapGet(stored, key) > Ttl

\* C21: once more than ttl has passed since the set that stored an entry,
\* get of its key returns undefined and has of its key returns false,
\* whatever get and has calls were made in between.
C21_ExpiresAfterTtl ==
  [][\A key \in CacheKeys :
       StoredLongAgo(key) =>
         /\ get(key) => ~cacheOut'.found
         /\ has(key) => ~cacheOut'.found]_vars


(***************************************************************************)
(* RateLimiter (src/ErrorBoundary.jsx).  Times are in milliseconds and     *)
(* pass in steps of TimeStep; the limiter is new RateLimiter({ max,        *)
(* window }) for a max of LimiterMaxes and a window of Windows.            *)
(***************************************************************************)
MaxClock == 3000

TimeStep == 500
LimiterMaxes == {1, 2}
Windows == {1000, 1500}

\* Math.ceil(n / d) for a positive d
Ceil(n, d) == IF n % d = 0 THEN n \div d ELSE (n \div d) + 1

\* a filter that keeps the timestamp that is a whole window old
FreshInclusive(timestamp, t, window) == t - timestamp <= window

\* timestamp => now - timestamp < this.window
Fresh(timestamp, t, window) == t - timestamp < window

\* this.timestamps.filter(timestamp => now - timestamp < this.window)
FilterTimestamps(l, t) ==
  SelectSeq(l.timestamps, LAMBDA timestamp : Fresh(timestamp, t, l.window))

check ==
  LET kept == FilterTimestamps(limiter, clock)
  IN /\ IF Len(kept) >= limiter.max
          THEN /\ limiter' = [limiter EXCEPT !.timestamps = kept]
               /\ limiterOut' =
                    [op |-> "check", allowed |-> FALSE,
                     retryAfter |->
                       Ceil(limiter.window - (clock - kept[1]), 1000)]
               /\ UNCHANGED allowedAt
          ELSE /\ limiter' = [limiter EXCEPT !.timestamps = Append(kept, clock)]
               /\ limiterOut' =
                    [op |-> "check", allowed |-> TRUE, retryAfter |-> Null]
               /\ allowedAt' = Append(allowedAt, clock)
     /\ UNCHANGED <<notLimiter, clock>>

\* reset(): the calls after it are a new sequence of calls
reset ==
  /\ limiter' = [limiter EXCEPT !.timestamps = <<>>]
  /\ limiterOut' = [op |-> "reset"]
  /\ allowedAt' = <<>>
  /\ UNCHANGED <<notLimiter, clock>>

\* get remaining()
remaining ==
  LET kept == FilterTimestamps(limiter, clock)
      left == limiter.max - Len(kept)
  IN /\ limiter' = [limiter EXCEPT !.timestamps = kept]
     /\ limiterOut' = [op |-> "remaining",
                       remaining |-> IF left > 0 THEN left ELSE 0]
     /\ UNCHANGED <<notLimiter, clock, allowedAt>>

\* time passes
tick ==
  /\ clock < MaxClock
  /\ clock' = clock + TimeStep
  /\ UNCHANGED <<notLimiter, limiter, limiterOut, allowedAt>>

InitLimiter ==
  /\ InitEngine
  /\ IdleFind
  /\ IdleStats
  /\ IdleFilter
  /\ IdleRadius
  /\ IdleCache
  /\ IdleUi
  /\ IdleStore
  /\ IdleData
  /\ limiter \in [max : LimiterMaxes, window : Windows, timestamps : {<<>>}]
  /\ clock = 0
  /\ limiterOut = NoLimiterOut
  /\ allowedAt = <<>>

NextLimiter ==
  \/ check
  \/ reset
  \/ remaining
  \/ tick

SpecLimiter == InitLimiter /\ [][NextLimiter]_vars

\* the allowed calls made less than a window before time t
AllowedWithin(t) ==
  {i \in DOMAIN allowedAt : allowedAt[i] <= t /\ t - allowedAt[i] < limiter.window}

\* C22: of the check() calls within any span shorter than the window at most
\* max are allowed; a call is refused exactly when max allowed calls lie
\* within the window before it; a refused call records nothing; a refused call
\* reports a retryAfter of more than 0 and at most ceil(window / 1000) seconds.
C22_LimitHolds ==
  [][/\ \A i \in DOMAIN allowedAt' :
          Cardinality(
            {j \in DOMAIN allowedAt' :
               /\ allowedAt'[j] >= allowedAt'[i]
               /\ allowedAt'[j] - allowedAt'[i] < limiter.window}) <= limiter.max
     /\ check =>
          /\ limiterOut'.allowed = (Cardinality(AllowedWithin(clock)) < limiter.max)
          /\ ~limiterOut'.allowed =>
               /\ Range(limiter'.timestamps) \subseteq Range(limiter.timestamps)
               /\ allowedAt' = allowedAt
               /\ limiterOut'.retryAfter > 0
               /\ limiterOut'.retryAfter * 1000 < limiter.window + 1000]_vars

\* a limiter of 2 calls per 1500 ms refuses the third call 1000 ms after the
\* first two and asks to retry after 1 second
C22_Witness ==
  /\ limiter.max = 2
  /\ limiter.window = 1500
  /\ allowedAt = <<0, 0>>
  /\ clock = 1000
  /\ limiterOut.op = "check"
  /\ ~limiterOut.allowed
  /\ limiterOut.retryAfter = 1


(***************************************************************************)
(* The graph store (useGraphStore, in src/src/store/useGraphStore.test.ts) *)
(* and NodeInfoPanel.handleExpand, which adds batches to it.  Only the     *)
(* graph, selectedNodeId and hoveredNodeId are modelled; the lists grow to *)
(* at most MaxStoreNodes nodes and MaxStoreEdges edges.                    *)
(***************************************************************************)
MaxStoreNodes == 3
MaxStoreEdges == 1

StoreNode(id, type) ==
  [id |-> id, type |-> type, expanded |-> FALSE, depth |-> 0]
StoreEdge(id, source, target) == [id |-> id, source |-> source, target |-> target]

\* the nodes and edges the host adds one by one or in batches
StoreNodePool == {StoreNode("a1", "author"), StoreNode("b1", "book")}
StoreEdgePool == {StoreEdge("e1", "a1", "b1"), StoreEdge("e2", "b1", "a1")}
StoreIds == {"a1", "b1"}
StoreEdgeIds == {"e1", "e2"}

\* Partial<GraphNode>
Updates == {[expanded |-> TRUE], [id |-> "b1"]}

\* the sessions a host loads: one without a graph, one with a graph
Sessions ==
  {[has |-> FALSE],
   [has |-> TRUE,
    graph |-> [nodes |-> <<StoreNode("b1", "book"), StoreNode("w1", "book")>>,
               edges |-> <<StoreEdge("e1", "b1", "w1")>>]]}

\* what openLibraryService returns: the keys of up to MaxWorks works
MaxWorks == 2
WorkKeys == {"w1", "b1"}

\* selectedNode.metadata.genres and .subjects
GenresOf(n) == IF n.id = "b1" THEN <<"Epic">> ELSE <<>>
ThemesOf(n) == IF n.id = "w1" THEN <<"War">> ELSE <<>>

\* name.toLowerCase().replace(/\s+/g, '-')
Slug(name) ==
  CASE name = "Epic" -> "epic"
    [] name = "War" -> "war"
    [] OTHER -> name

SetGraph(nodes, edges) ==
  /\ graph' = [nodes |-> nodes, edges |-> edges]
  /\ removed' = NullId

\* the lists an addition may grow to
Fits(nodes, edges) ==
  /\ Len(nodes) <= MaxStoreNodes
  /\ Len(edges) <= MaxStoreEdges

addNode(n) ==
  /\ Fits(Append(graph.nodes, n), graph.edges)
  /\ SetGraph(Append(graph.nodes, n), graph.edges)
  /\ UNCHANGED <<notStore, selectedNodeId, hoveredNodeId>>

addNodes(ns) ==
  /\ Fits(graph.nodes \o ns, graph.edges)
  /\ SetGraph(graph.nodes \o ns, graph.edges)
  /\ UNCHANGED <<notStore, selectedNodeId, hoveredNodeId>>

\* a removeNode that leaves the edges of the node in the graph
removeNodeOnly(nodeId) ==
  /\ graph' = [nodes |-> SelectSeq(graph.nodes, LAMBDA n : n.id # nodeId),
                edges |-> graph.edges]
  /\ removed' = nodeId
  /\ UNCHANGED <<notStore, selectedNodeId, hoveredNodeId>>

removeNode(nodeId) ==
  /\ graph' =
       [nodes |-> SelectSeq(graph.nodes, LAMBDA n : n.id # nodeId),
        edges |-> SelectSeq(graph.edges,
                            LAMBDA e : e.source # nodeId /\ e.target # nodeId)]
  /\ removed' = nodeId
  /\ UNCHANGED <<notStore, selectedNodeId, hoveredNodeId>>

\* nodes.map(n => n.id === nodeId ? { ...n, ...updates } : n)
MapNodes(nodeId, updates) ==
  [i \in DOMAIN graph.nodes |->
     IF graph.nodes[i].id = nodeId
       THEN Merge(graph.nodes[i], updates) ELSE graph.nodes[i]]

updateNode(nodeId, updates) ==
  /\ SetGraph(MapNodes(nodeId, updates), graph.edges)
  /\ UNCHANGED <<notStore, selectedNodeId, hoveredNodeId>>

addEdge(e) ==
  /\ Fits(graph.nodes, Append(graph.edges, e))
  /\ SetGraph(graph.nodes, Append(graph.edges, e))
  /\ UNCHANGED <<notStore, selectedNodeId, hoveredNodeId>>

addEdges(es) ==
  /\ Fits(graph.nodes, graph.edges \o es)
  /\ SetGraph(graph.nodes, graph.edges \o es)
  /\ UNCHANGED <<notStore, selectedNodeId, hoveredNodeId>>

\* the store's removeEdge(edgeId)
removeEdgeById(edgeId) ==
  /\ SetGraph(graph.nodes, SelectSeq(graph.edges, LAMBDA e : e.id # edgeId))
  /\ UNCHANGED <<notStore, selectedNodeId, hoveredNodeId>>

setSelectedNode(nodeId) ==
  /\ selectedNodeId' = nodeId
  /\ removed' = NullId
  /\ UNCHANGED <<notStore, graph, hoveredNodeId>>

setHoveredNode(nodeId) ==
  /\ hoveredNodeId' = nodeId
  /\ removed' = NullId
  /\ UNCHANGED <<notStore, graph, selectedNodeId>>

expandNode(nodeId) ==
  /\ SetGraph(MapNodes(nodeId, [expanded |-> TRUE]), graph.edges)
  /\ UNCHANGED <<notStore, selectedNodeId, hoveredNodeId>>

collapseNode(nodeId) ==
  /\ SetGraph(MapNodes(nodeId, [expanded |-> FALSE]), graph.edges)
  /\ UNCHANGED <<notStore, selectedNodeId, hoveredNodeId>>

clearGraph ==
  /\ graph' = NoGraph
  /\ selectedNodeId' = NullId
  /\ hoveredNodeId' = NullId
  /\ removed' = NullId
  /\ UNCHANGED notStore

loadSession(session) ==
  /\ graph' = IF session.has THEN session.graph ELSE NoGraph
  /\ removed' = NullId
  /\ UNCHANGED <<notStore, selectedNodeId, hoveredNodeId>>

HasNode(id) == \E i \in DOMAIN graph.nodes : graph.nodes[i].id = id

\* graph.nodes.find((n) => n.id === selectedNodeId)
FindNode(id) ==
  graph.nodes[CHOOSE i \in DOMAIN graph.nodes :
                /\ graph.nodes[i].id = id
                /\ \A j \in 1..(i - 1) : graph.nodes[j].id # id]

ExpansionNode(id, type, depth) ==
  [id |-> id, type |-> type, expanded |-> FALSE, depth |-> depth]

\* the nodes and edges handleExpand collects for an author: every work
AuthorExpansion(sel, works) ==
  [nodes |-> [i \in DOMAIN works |->
                ExpansionNode(works[i], "book", sel.depth + 1)],
   edges |-> [i \in DOMAIN works |->
                StoreEdge("edge-" \o sel.id \o "-" \o works[i], sel.id, works[i])]]

\* for a genre or theme: every book of the subject, the edge from the book
SubjectExpansion(sel, works) ==
  [nodes |-> [i \in DOMAIN works |->
                ExpansionNode(works[i], "book", sel.depth + 1)],
   edges |-> [i \in DOMAIN works |->
                StoreEdge("edge-" \o works[i] \o "-" \o sel.id, works[i], sel.id)]]

\* for a book: a node for each genre and theme the graph does not hold yet,
\* an edge for each genre and theme
BookExpansion(sel) ==
  LET tags == [i \in DOMAIN GenresOf(sel) |->
                 [id |-> "genre-" \o Slug(GenresOf(sel)[i]), type |-> "genre"]]
              \o [i \in DOMAIN ThemesOf(sel) |->
                    [id |-> "theme-" \o Slug(ThemesOf(sel)[i]), type |-> "theme"]]
      missing == SelectSeq(tags, LAMBDA t : ~HasNode(t.id))
  IN [nodes |-> [i \in DOMAIN missing |->
                   ExpansionNode(missing[i].id, missing[i].type, sel.depth + 1)],
      edges |-> [i \in DOMAIN tags |->
                   StoreEdge("edge-" \o sel.id \o "-" \o tags[i].id,
                             sel.id, tags[i].id)]]

\* NodeInfoPanel.handleExpand: addNodes(newNodes) and addEdges(newEdges) when
\* there is a new node
handleExpand(works) ==
  /\ HasNode(selectedNodeId)
  /\ LET sel == FindNode(selectedNodeId)
         new == CASE sel.type = "author" -> AuthorExpansion(sel, works)
                  [] sel.type = "book" -> BookExpansion(sel)
                  [] sel.type \in {"genre", "theme"} -> SubjectExpansion(sel, works)
                  [] OTHER -> NoGraph
     IN /\ new.nodes # <<>>
        /\ Fits(graph.nodes \o new.nodes, graph.edges \o new.edges)
        /\ SetGraph(graph.nodes \o new.nodes, graph.edges \o new.edges)
  /\ UNCHANGED <<notStore, selectedNodeId, hoveredNodeId>>

InitStore ==
  /\ InitEngine
  /\ IdleFind
  /\ IdleStats
  /\ IdleFilter
  /\ IdleRadius
  /\ IdleCache
  /\ IdleUi
  /\ IdleLimiter
  /\ IdleStore
  /\ IdleData

SelectableIds == StoreIds \cup {NullId}
HoverableIds == {"a1", NullId}

NextStore ==
  \/ \E n \in StoreNodePool : addNode(n)
  \/ \E ns \in SeqsUpTo(StoreNodePool, 2) : addNodes(ns)
  \/ \E id \in StoreIds : removeNode(id)
  \/ \E id \in StoreIds, updates \in Updates : updateNode(id, updates)
  \/ \E e \in StoreEdgePool : addEdge(e)
  \/ \E es \in SeqsUpTo(StoreEdgePool, 2) : addEdges(es)
  \/ \E id \in StoreEdgeIds : removeEdgeById(id)
  \/ \E id \in SelectableIds : setSelectedNode(id)
  \/ \E id \in HoverableIds : setHoveredNode(id)
  \/ \E id \in StoreIds : expandNode(id)
  \/ \E id \in StoreIds : collapseNode(id)
  \/ clearGraph
  \/ \E session \in Sessions : loadSession(session)
  \/ \E works \in SeqsUpTo(WorkKeys, MaxWorks) : handleExpand(works)

SpecStore == InitStore /\ [][NextStore]_vars

\* removeNode on any graph the additions can build, lists of up to
\* MaxRemoveNodes nodes and MaxRemoveEdges edges, ids repeated or not
MaxRemoveNodes == 3
MaxRemoveEdges == 2

RemoveNodePool ==
  {StoreNode("a1", "author"), StoreNode("b1", "book"),
   [StoreNode("w1", "book") EXCEPT !.expanded = TRUE]}
RemoveEdgePool ==
  {StoreEdge("e1", "a1", "b1"), StoreEdge("e2", "b1", "a1"),
   StoreEdge("e3", "w1", "w1"), StoreEdge("e4", "a1", "w1")}
RemoveIds == {"a1", "b1", "w1"}

InitRemove ==
  /\ InitEngine
  /\ IdleFind
  /\ IdleStats
  /\ IdleFilter
  /\ IdleRadius
  /\ IdleCache
  /\ IdleUi
  /\ IdleLimiter
  /\ IdleData
  /\ graph \in [nodes : SeqsUpTo(RemoveNodePool, MaxRemoveNodes),
                 edges : SeqsUpTo(RemoveEdgePool, MaxRemoveEdges)]
  /\ selectedNodeId = NullId
  /\ hoveredNodeId = NullId
  /\ removed = NullId

NextRemove == \E id \in RemoveIds : removeNode(id)

SpecRemove == InitRemove /\ [][NextRemove]_vars

\* the positions of the nodes and of the edges that do not involve node id
OtherNodes(id) == {i \in DOMAIN graph.nodes : graph.nodes[i].id # id}
OtherEdges(id) ==
  {i \in DOMAIN graph.edges :
     graph.edges[i].source # id /\ graph.edges[i].target # id}

\* C23: after removeNode(id) the graph holds no node with that id and no edge
\* from or to that id, and every other node and edge is still there, as it
\* was and in the order it was in.
C23_RemoveNodeFrame ==
  [][\A id \in RemoveIds :
       removeNode(id) =>
         /\ \A i \in DOMAIN graph'.nodes : graph'.nodes[i].id # id
         /\ \A i \in DOMAIN graph'.edges :
              graph'.edges[i].source # id /\ graph'.edges[i].target # id
         /\ graph'.nodes = Pick(graph.nodes, OtherNodes(id))
         /\ graph'.edges = Pick(graph.edges, OtherEdges(id))]_vars

\* the graph had three nodes and two edges and lost its middle node and the
\* edge a1-b1, keeping w1 after a1 and the edge a1-w1
C23_Witness ==
  /\ removed = "b1"
  /\ graph.nodes = <<StoreNode("a1", "author"),
                     [StoreNode("w1", "book") EXCEPT !.expanded = TRUE]>>
  /\ graph.edges = <<StoreEdge("e4", "a1", "w1")>>

\* no two entries of the list have the same id
UniqueIds(q) == \A i, j \in DOMAIN q : q[i].id = q[j].id => i = j

\* C24: in every state the store actions and the batches of handleExpand
\* reach, no two nodes of graph.nodes have the same id and no two edges of
\* graph.edges have the same id.
C24_IdsUnique == UniqueIds(graph.nodes) /\ UniqueIds(graph.edges)

NodeIdsOf(g) == {g.nodes[i].id : i \in DOMAIN g.nodes}

\* C29: in every state the store actions reach, selectedNodeId and
\* hoveredNodeId are each null or the id of a node of graph.nodes.
C29_SelectionInGraph ==
  /\ selectedNodeId \in NodeIdsOf(graph) \cup {NullId}
  /\ hoveredNodeId \in NodeIdsOf(graph) \cup {NullId}


(***************************************************************************)
(* dataService (in src/src/services/dataService.test.ts): exportGraph,     *)
(* validateImport, importGraph.  A JavaScript value is a record of its     *)
(* kind and content: an object is the list of its properties in insertion  *)
(* order, an array the list of its items, a number is in tenths.  A JSON    *)
(* text is the sequence of its tokens; white space is left out.            *)
(***************************************************************************)
MaxDataNodes == 2
MaxDataEdges == 1

JsValue(kind, text, num, members) ==
  [kind |-> kind, text |-> text, num |-> num, members |-> members]
JsUndefined == JsValue("undefined", "", 0, <<>>)
JsNull == JsValue("null", "", 0, <<>>)
JsString(s) == JsValue("string", s, 0, <<>>)
JsNumber(n) == JsValue("number", "", n, <<>>)
JsBoolean(b) == JsValue("boolean", IF b THEN "true" ELSE "false", 0, <<>>)
JsObject(members) == JsValue("object", "", 0, members)
JsArray(items) ==
  JsValue("array", "", 0, [i \in DOMAIN items |-> [key |-> "", value |-> items[i]]])

Property(key, value) == [key |-> key, value |-> value]
Items(a) == [i \in DOMAIN a.members |-> a.members[i].value]

\* o[key]
Get(o, key) ==
  IF o.kind = "object" /\ MapHas(o.members, key)
    THEN MapGet(o.members, key) ELSE JsUndefined

Token(t, text, chars) == [t |-> t, text |-> text, chars |-> chars]
Punct(t) == Token(t, "", <<>>)

\* the tokens of the lists, a comma between two lists
RECURSIVE Joined(_)
Joined(lists) ==
  IF lists = <<>> THEN <<>>
  ELSE IF Len(lists) = 1 THEN lists[1]
  ELSE lists[1] \o <<Punct(",")>> \o Joined(Tail(lists))

\* JSON.stringify(value): a property whose value is undefined is left out;
\* an item that is undefined is written null
RECURSIVE stringify(_)
stringify(v) ==
  CASE v.kind = "string" -> <<Token("string", v.text, <<>>)>>
    [] v.kind = "number" -> <<Token("number", "", NumberToString(v.num, 10))>>
    [] v.kind = "boolean" -> <<Punct(v.text)>>
    [] v.kind = "object" ->
         LET kept == SelectSeq(v.members, LAMBDA m : m.value.kind # "undefined")
         IN <<Punct("{")>>
              \o Joined([i \in DOMAIN kept |->
                           <<Token("string", kept[i].key, <<>>), Punct(":")>>
                             \o stringify(kept[i].value)])
              \o <<Punct("}")>>
    [] v.kind = "array" ->
         <<Punct("[")>>
           \o Joined([i \in DOMAIN v.members |-> stringify(v.members[i].value)])
           \o <<Punct("]")>>
    [] OTHER -> <<Punct("null")>>

\* the number a JSON number token stands for, in tenths
JsonNumber(chars) ==
  IF \E i \in DOMAIN chars : chars[i] = "."
    THEN LET dot == CHOOSE i \in DOMAIN chars : chars[i] = "."
         IN 10 * ParseDigits(SubSeq(chars, 1, dot - 1))
              + DigitValue(chars[dot + 1])
    ELSE 10 * ParseDigits(chars)

\* JSON.parse, from token i on: the value read and the position after it
RECURSIVE ParseValue(_, _)
RECURSIVE ParseMembers(_, _, _)
RECURSIVE ParseItems(_, _, _)
ParseValue(toks, i) ==
  LET tok == toks[i]
  IN CASE tok.t = "string" -> [value |-> JsString(tok.text), next |-> i + 1]
       [] tok.t = "number" ->
            [value |-> JsNumber(JsonNumber(tok.chars)), next |-> i + 1]
       [] tok.t = "true" -> [value |-> JsBoolean(TRUE), next |-> i + 1]
       [] tok.t = "false" -> [value |-> JsBoolean(FALSE), next |-> i + 1]
       [] tok.t = "null" -> [value |-> JsNull, next |-> i + 1]
       [] tok.t = "{" ->
            IF toks[i + 1].t = "}"
              THEN [value |-> JsObject(<<>>), next |-> i + 2]
              ELSE ParseMembers(toks, i + 1, <<>>)
       [] tok.t = "[" ->
            IF toks[i + 1].t = "]"
              THEN [value |-> JsArray(<<>>), next |-> i + 2]
              ELSE ParseItems(toks, i + 1, <<>>)

ParseMembers(toks, i, acc) ==
  LET r == ParseValue(toks, i + 2)
      members == MapSet(acc, toks[i].text, r.value)
  IN IF toks[r.next].t = ","
       THEN ParseMembers(toks, r.next + 1, members)
       ELSE [value |-> JsObject(members), next |-> r.next + 1]

ParseItems(toks, i, acc) ==
  LET r == ParseValue(toks, i)
      items == Append(acc, r.value)
  IN IF toks[r.next].t = ","
       THEN ParseItems(toks, r.next + 1, items)
       ELSE [value |-> JsArray(items), next |-> r.next + 1]

parse(toks) == ParseValue(toks, 1).value

\* { ...n } of a node as it is
Unstripped(n) == n

\* { ...n, x: undefined, y: undefined, vx: undefined, vy: undefined,
\*   fx: undefined, fy: undefined }
GeometryFields == <<"x", "y", "vx", "vy", "fx", "fy">>
RECURSIVE SetAll(_, _)
SetAll(members, keys) ==
  IF keys = <<>> THEN members
  ELSE SetAll(MapSet(members, Head(keys), JsUndefined), Tail(keys))

Stripped(n) == JsObject(SetAll(n.members, GeometryFields))

ExportData(g) ==
  JsObject(<<Property("version", JsNumber(10)),
             Property("timestamp", JsString("2026-01-01T00:00:00.000Z")),
             Property("schema", JsString("storylines-v1")),
             Property("graph",
               JsObject(<<Property("nodes",
                            JsArray([i \in DOMAIN Get(g, "nodes").members |->
                                       Stripped(Items(Get(g, "nodes"))[i])])),
                          Property("edges", Get(g, "edges"))>>))>>)

Truthy(v) ==
  CASE v.kind \in {"undefined", "null"} -> FALSE
    [] v.kind = "string" -> v.text # ""
    [] v.kind = "number" -> v.num # 0
    [] v.kind = "boolean" -> v.text = "true"
    [] OTHER -> TRUE

validateImport(data) ==
  IF ~Truthy(data) \/ data.kind \notin {"object", "array"} THEN FALSE
  ELSE IF \/ ~Truthy(Get(data, "graph"))
          \/ Get(Get(data, "graph"), "nodes").kind # "array"
          \/ Get(Get(data, "graph"), "edges").kind # "array"
    THEN FALSE
  ELSE LET nodes == Items(Get(Get(data, "graph"), "nodes"))
           edges == Items(Get(Get(data, "graph"), "edges"))
           hasValidNodes ==
             \A i \in DOMAIN nodes :
               /\ Get(nodes[i], "id").kind = "string"
               /\ Get(nodes[i], "type").kind = "string"
               /\ Get(nodes[i], "label").kind = "string"
           hasValidEdges ==
             \A i \in DOMAIN edges :
               /\ Get(edges[i], "source").kind = "string"
               /\ Get(edges[i], "target").kind = "string"
       IN hasValidNodes /\ hasValidEdges

\* what importGraph returns or throws; the empty text is not JSON
ImportGraph(jsonString) ==
  IF jsonString = <<>>
    THEN [done |-> TRUE, ok |-> FALSE, error |-> "Invalid JSON", graph |-> JsUndefined]
  ELSE LET data == parse(jsonString)
       IN IF ~validateImport(data)
            THEN [done |-> TRUE, ok |-> FALSE, error |-> "Invalid data format",
                  graph |-> JsUndefined]
            ELSE [done |-> TRUE, ok |-> TRUE, error |-> "",
                  graph |-> Get(data, "graph")]

\* the nodes and edges of the graphs exported
DataNode(id, type, label, metadata, depth, more) ==
  JsObject(<<Property("id", JsString(id)), Property("type", JsString(type)),
             Property("label", JsString(label))>>
           \o more
           \o <<Property("metadata", JsObject(metadata)),
                Property("expanded", JsBoolean(depth = 0)),
                Property("depth", JsNumber(10 * depth))>>)

DataNodePool ==
  {DataNode("1", "book", "Test Book", <<>>, 0, <<>>),
   DataNode("2", "author", "Test Author",
            <<Property("openLibraryId", JsString("/authors/OL1A"))>>, 0,
            <<Property("x", JsNumber(1000)), Property("y", JsNumber(5)),
              Property("vx", JsNumber(5)), Property("vy", JsNumber(0)),
              Property("fx", JsNull), Property("fy", JsNull),
              Property("index", JsNumber(0))>>),
   DataNode("/works/OL2W", "book", "",
            <<Property("year", JsUndefined),
              Property("authors", JsArray(<<JsString("A. Author")>>)),
              Property("openLibraryId", JsString("/works/OL2W"))>>, 1,
            <<Property("fx", JsNumber(1000))>>),
   DataNode("theme-war", "theme", "War",
            <<Property("year", JsNumber(18150))>>, 1, <<>>)}

DataEdgePool ==
  {JsObject(<<Property("id", JsString("e1")), Property("source", JsString("2")),
              Property("target", JsString("1")), Property("type", JsString("wrote")),
              Property("strength", JsNumber(10))>>),
   JsObject(<<Property("source", JsString("1")),
              Property("target", JsString("theme-war")),
              Property("strength", JsNumber(6)),
              Property("index", JsNumber(0))>>)}

DataGraphs ==
  {JsObject(<<Property("nodes", JsArray(ns)), Property("edges", JsArray(es))>>) :
     ns \in SeqsUpTo(DataNodePool, MaxDataNodes),
     es \in SeqsUpTo(DataEdgePool, MaxDataEdges)}

InitData ==
  /\ InitEngine
  /\ IdleFind
  /\ IdleStats
  /\ IdleFilter
  /\ IdleRadius
  /\ IdleCache
  /\ IdleUi
  /\ IdleLimiter
  /\ IdleStore
  /\ dataIn \in DataGraphs
  /\ json = <<>>
  /\ dataOut = NoDataOut

exportGraph ==
  /\ json = <<>>
  /\ json' = stringify(ExportData(dataIn))
  /\ dataOut' = NoDataOut
  /\ UNCHANGED <<notData, dataIn>>

importGraph ==
  /\ ~dataOut.done
  /\ dataOut' = ImportGraph(json)
  /\ UNCHANGED <<notData, dataIn, json>>

NextData ==
  \/ exportGraph
  \/ importGraph

SpecData == InitData /\ [][NextData]_vars

\* a value without its properties whose value is undefined, at every level:
\* two values are the same when these are equal
RECURSIVE Defined(_)
Defined(v) ==
  IF v.kind \in {"object", "array"}
    THEN LET kept ==
               IF v.kind = "array" THEN v.members
               ELSE SelectSeq(v.members, LAMBDA m : m.value.kind # "undefined")
         IN [v EXCEPT !.members =
               [i \in DOMAIN kept |-> Property(kept[i].key, Defined(kept[i].value))]]
    ELSE v

NodeFields == {"id", "type", "label", "metadata", "expanded", "depth"}

Clustered(s) == "cluster" \in ForceNames(s.forces)
ClusteredY(s) == "cluster-y" \in ForceNames(s.forces)

IsInitialize == \E g \in Graphs : initialize(g.nodes, g.edges)
IsApplyTypeClustering == \E enable \in BOOLEAN : applyTypeClustering(enable)

\* C26: the forces 'cluster' and 'cluster-y' are both registered or both
\* absent; both are absent after initialize; they change only through
\* applyTypeClustering (or with the simulation itself, when the engine takes a
\* new one or drops the one it holds), which registers both when enable is
\* true, removes both when it is false, and changes nothing when the engine
\* holds no simulation.
C26_ClusteringAsAUnit ==
  [][/\ Clustered(sim') = ClusteredY(sim')
     /\ IsInitialize => ~Clustered(sim') /\ ~ClusteredY(sim')
     /\ Clustered(sim') # Clustered(sim) =>
          IsApplyTypeClustering \/ simulation' # simulation
     /\ \A enable \in BOOLEAN :
          applyTypeClustering(enable) =>
            IF simulation = 0 THEN sim' = sim /\ simulation' = 0
            ELSE Clustered(sim') = enable /\ ClusteredY(sim') = enable]_vars

\* the engine under initialize, updateGraph and updateConfig alone, the
\* configuration changed in its size, its charge or its collision switch
ConfigPartials ==
  Partials \cup {[enableCollision |-> FALSE], [chargeStrength |-> 0 - 100]}

NextConfig ==
  \/ \E g \in Graphs : initialize(g.nodes, g.edges)
  \/ \E g \in Graphs : updateGraph(g.nodes, g.edges)
  \/ \E p \in ConfigPartials : updateConfig(p)

SpecConfig == Init /\ [][NextConfig]_vars

ForceOf(name) == CHOOSE f \in sim.forces : f.name = name

\* C27: while the engine holds a simulation, the center, x, y and radial
\* forces target the midpoint of the current configuration, the charge force
\* has the current chargeStrength, and the collision force is registered
\* exactly when enableCollision is true.
C27_ForcesMatchConfig ==
  simulation # 0 =>
    /\ ForceOf("center") = Force("center", config.width \div 2, config.height \div 2)
    /\ ForceOf("x").a = config.width \div 2
    /\ ForceOf("y").a = config.height \div 2
    /\ ForceOf("radial") = Force("radial", config.width \div 2, config.height \div 2)
    /\ ForceOf("charge").a = config.chargeStrength
    /\ ("collision" \in ForceNames(sim.forces)) = config.enableCollision


(***************************************************************************)
(* GraphCanvas (src/unnamed/part_002): the effect that registers the mouse *)
(* handlers.  draggedNode is a local of the effect, so every run of the    *)
(* effect has its own, null at first; the effect runs again when           *)
(* graph.nodes, a callback prop or render changes, and render changes with *)
(* graph, dimensions, selectedNodeId and hoveredNodeId.  The engine holds  *)
(* the simulation the graph effect gave it.  The host delivers one pointer *)
(* gesture at a time: a mousedown comes only after the mouseup or          *)
(* mouseleave of the gesture before.  The event's input is the node        *)
(* engine.findNodeAt finds under the pointer, NullId when there is none.   *)
(***************************************************************************)
MaxPending == 2

CanvasNodes == <<"a", "b">>
Hits == NodeIds \cup {NullId}

\* the queue of started drags without the first entry for n
Without(q, n) ==
  IF \E i \in DOMAIN q : q[i] = n
    THEN LET k == CHOOSE i \in DOMAIN q : q[i] = n /\ \A j \in 1..(i - 1) : q[j] # n
         IN SubSeq(q, 1, k - 1) \o SubSeq(q, k + 1, Len(q))
    ELSE q

handleMouseMove(hit) ==
  IF draggedNode # NullId
    THEN UNCHANGED <<hoveredNodeId, removed>>
    ELSE hoveredNodeId' = hit /\ removed' = NullId

\* engine.dragged(draggedNode, {x, y}); render()
handleMouseDrag(x, y) ==
  IF draggedNode = NullId
    THEN UNCHANGED node
    ELSE node' = [node EXCEPT ![draggedNode].fx = x, ![draggedNode].fy = y]

mousemove(hit, x, y) ==
  /\ handleMouseMove(hit)
  /\ handleMouseDrag(x, y)
  /\ UNCHANGED <<sim, draggedNode, pressed, pending, graph, selectedNodeId>>

\* engine.dragStarted(node, {active: true}): the node is pinned where it is
handleMouseDown(hit) ==
  /\ ~pressed
  /\ Len(pending) < MaxPending
  /\ pressed' = TRUE
  /\ IF hit = NullId
       THEN UNCHANGED <<draggedNode, node, pending>>
       ELSE /\ draggedNode' = hit
            /\ node' = IF simulation = 0 THEN node
                       ELSE [node EXCEPT ![hit].fx = node[hit].x,
                                         ![hit].fy = node[hit].y]
            /\ pending' = Append(pending, hit)
  /\ UNCHANGED <<sim, storeVars>>

\* engine.dragEnded(draggedNode, {active: false}): alphaTarget(0)
handleMouseUp ==
  /\ pressed' = FALSE
  /\ IF draggedNode = NullId
       THEN UNCHANGED <<draggedNode, sim, pending>>
       ELSE /\ sim' = IF simulation # 0 THEN [sim EXCEPT !.alphaTarget = 0] ELSE sim
            /\ pending' = Without(pending, draggedNode)
            /\ draggedNode' = NullId
  /\ UNCHANGED <<node, storeVars>>

mouseup == handleMouseUp
mouseleave == handleMouseUp

handleClick(hit) ==
  /\ selectedNodeId' = hit
  /\ removed' = NullId
  /\ UNCHANGED <<node, sim, canvasVars, graph, hoveredNodeId>>

\* the effect runs again: its cleanup removes the handlers of the run
\* before, the new handlers close over a new draggedNode
mouseEffect ==
  /\ draggedNode' = NullId
  /\ UNCHANGED <<node, sim, pressed, pending, storeVars>>

canvasFrame ==
  <<edge, config, simulation, created, ops, raised, via, destroyed, drag,
    registered, invoked, findVars, statsVars, filterVars, radiusVars, cacheVars,
    limiterVars, dataVars, presetVars>>

InitCanvas ==
  /\ node = InitializeNodes([n \in NodeIds |-> HostNode(n)], CanvasNodes)
  /\ edge = [e \in EdgeIds |-> HostEdge(e)]
  /\ config = DefaultConfig
  /\ simulation = 1
  /\ sim = [NewSim(CanvasNodes, <<>>, DefaultConfig) EXCEPT !.tick = 1]
  /\ created = 1
  /\ ops = 0
  /\ raised = FALSE
  /\ via = "updateGraph"
  /\ destroyed = FALSE
  /\ drag = [phase |-> "idle", node |-> "a", x |-> Null, y |-> Null]
  /\ registered = 1
  /\ invoked = Null
  /\ IdleFind
  /\ IdleStats
  /\ IdleFilter
  /\ IdleRadius
  /\ IdleCache
  /\ IdleLimiter
  /\ IdleData
  /\ IdlePresets
  /\ graph = [nodes |-> <<StoreNode("a", "book"), StoreNode("b", "author")>>,
              edges |-> <<>>]
  /\ selectedNodeId = NullId
  /\ hoveredNodeId = NullId
  /\ removed = NullId
  /\ IdleCanvas

NextCanvas ==
  \/ \E hit \in Hits : handleMouseDown(hit) /\ UNCHANGED canvasFrame
  \/ \E hit \in Hits, p \in Points : mousemove(hit, p[1], p[2]) /\ UNCHANGED canvasFrame
  \/ mouseup /\ UNCHANGED canvasFrame
  \/ mouseleave /\ UNCHANGED canvasFrame
  \/ \E hit \in Hits : handleClick(hit) /\ UNCHANGED canvasFrame
  \/ mouseEffect /\ UNCHANGED canvasFrame

SpecCanvas == InitCanvas /\ [][NextCanvas]_vars

\* C28: the drags the engine was told to start and not yet to end are at
\* most one, and none once the pointer gesture is over (after mouseup or
\* mouseleave): each engine.dragStarted(node) is followed by its
\* engine.dragEnded(node) before any other dragStarted.
C28_OneDragAtATime ==
  /\ Len(pending) <= 1
  /\ ~pressed => pending = <<>>


(***************************************************************************)
(* Filter presets (src/unnamed/part_009): saveFilter, getSavedFilters,     *)
(* deleteFilter, getFilterById, updateFilterLastUsed over the localStorage *)
(* item STORAGE_KEY.  The item is absent or holds the JSON text written    *)
(* last, as tokens; localStorage itself keeps what it is given.  saved is  *)
(* the map the list is compared with: by id, NoPreset before any save,     *)
(* JsNull after a delete, else the preset saved last with the lastUsed set *)
(* since.                                                                  *)
(***************************************************************************)
MaxDay == 2

\* new Date().toISOString()
DayTexts ==
  <<"2026-01-01T00:00:00.000Z", "2026-01-02T00:00:00.000Z",
    "2026-01-03T00:00:00.000Z", "2026-01-04T00:00:00.000Z">>
ToISOString(d) == JsString(DayTexts[d])

NodeTypeCriterion ==
  JsObject(<<Property("id", JsString("criterion-1")),
             Property("name", JsString("Node Types")),
             Property("enabled", JsBoolean(TRUE)),
             Property("type", JsString("nodeType")),
             Property("config",
               JsObject(<<Property("types",
                            JsObject(<<Property("book", JsBoolean(TRUE)),
                                       Property("author", JsBoolean(FALSE))>>))>>))>>)

YearCriterion ==
  JsObject(<<Property("id", JsString("criterion-2")),
             Property("enabled", JsBoolean(FALSE)),
             Property("type", JsString("publicationYear")),
             Property("config",
               JsObject(<<Property("mode", JsString("before")),
                          Property("minYear", JsUndefined),
                          Property("maxYear", JsNumber(19000))>>))>>)

SavedFilter(id, name, criteria, lastUsed) ==
  JsObject(<<Property("id", JsString(id)),
             Property("name", JsString(name)),
             Property("description", JsString("")),
             Property("criteria", JsArray(criteria)),
             Property("createdAt", ToISOString(1))>>
           \o lastUsed)

\* the presets a host saves: two under f1, one of them with a lastUsed of its
\* own and an undefined minYear, one under f2
Presets ==
  {SavedFilter("f1", "Novels", <<NodeTypeCriterion>>, <<>>),
   SavedFilter("f1", "Old", <<YearCriterion>>, <<Property("lastUsed", ToISOString(1))>>),
   SavedFilter("f2", "Other", <<>>, <<>>)}

IdOf(filter) == Get(filter, "id").text

getSavedFilters ==
  IF storage.present /\ storage.data # <<>> THEN parse(storage.data) ELSE JsArray(<<>>)

\* saved.push(filter) whatever the list holds
Pushed(list, filter) == Append(list, filter)

\* saved[index] = filter when findIndex finds the id, else saved.push(filter)
Upsert(list, filter) ==
  IF \E i \in DOMAIN list : Get(list[i], "id") = Get(filter, "id")
    THEN LET index == CHOOSE i \in DOMAIN list :
                        /\ Get(list[i], "id") = Get(filter, "id")
                        /\ \A j \in 1..(i - 1) : Get(list[j], "id") # Get(filter, "id")
         IN [list EXCEPT ![index] = filter]
    ELSE Append(list, filter)

setItem(value) == storage' = [present |-> TRUE, data |-> stringify(value)]

\* filters.find(f => f.id === filterId) || null
GetFilterById(filterId) ==
  LET filters == Items(getSavedFilters)
  IN IF \E i \in DOMAIN filters : Get(filters[i], "id") = JsString(filterId)
       THEN filters[CHOOSE i \in DOMAIN filters :
                      /\ Get(filters[i], "id") = JsString(filterId)
                      /\ \A j \in 1..(i - 1) : Get(filters[j], "id") # JsString(filterId)]
       ELSE JsNull

Known(filterId) == saved[filterId].kind = "object"

saveFilter(filter) ==
  /\ setItem(JsArray(Upsert(Items(getSavedFilters), filter)))
  /\ presetOut' = JsBoolean(TRUE)
  /\ saved' = [saved EXCEPT ![IdOf(filter)] = filter]
  /\ UNCHANGED <<notPresets, today>>

deleteFilter(filterId) ==
  /\ setItem(JsArray(SelectSeq(Items(getSavedFilters),
                               LAMBDA f : Get(f, "id") # JsString(filterId))))
  /\ presetOut' = JsBoolean(TRUE)
  /\ saved' = [saved EXCEPT ![filterId] = IF Known(filterId) THEN JsNull ELSE @]
  /\ UNCHANGED <<notPresets, today>>

getFilterById(filterId) ==
  /\ presetOut' = GetFilterById(filterId)
  /\ UNCHANGED <<notPresets, storage, saved, today>>

WithLastUsed(filter) ==
  JsObject(MapSet(filter.members, "lastUsed", ToISOString(today)))

updateFilterLastUsed(filterId) ==
  LET filter == GetFilterById(filterId)
  IN /\ IF Truthy(filter)
          THEN setItem(JsArray(Upsert(Items(getSavedFilters), WithLastUsed(filter))))
          ELSE UNCHANGED storage
     /\ presetOut' = JsUndefined
     /\ saved' = [saved EXCEPT ![filterId] =
                    IF Known(filterId) THEN WithLastUsed(@) ELSE @]
     /\ UNCHANGED <<notPresets, today>>

\* the day passes
nextDay ==
  /\ today < MaxDay
  /\ today' = today + 1
  /\ UNCHANGED <<notPresets, storage, saved, presetOut>>

InitPresets ==
  /\ InitEngine
  /\ IdleFind
  /\ IdleStats
  /\ IdleFilter
  /\ IdleRadius
  /\ IdleCache
  /\ IdleLimiter
  /\ IdleStore
  /\ IdleData
  /\ IdleCanvas
  /\ IdlePresets

NextPresets ==
  \/ \E filter \in Presets : saveFilter(filter)
  \/ \E filterId \in PresetIds : deleteFilter(filterId)
  \/ \E filterId \in PresetIds : getFilterById(filterId)
  \/ \E filterId \in PresetIds : updateFilterLastUsed(filterId)
  \/ nextDay

SpecPresets == InitPresets /\ [][NextPresets]_vars

\* the stored list read as a map keyed by id
OnePerId ==
  LET filters == Items(getSavedFilters)
  IN \A i, j \in DOMAIN filters :
       Get(filters[i], "id") = Get(filters[j], "id") => i = j

LooksUpSaved ==
  \A filterId \in PresetIds :
    GetFilterById(filterId) =
      IF Known(filterId) THEN Defined(saved[filterId]) ELSE JsNull

StoredPresets(item) ==
  IF item.present /\ item.data # <<>> THEN parse(item.data) ELSE JsArray(<<>>)

\* C30: from an empty preset store, the stored list holds at most one preset
\* per id; getFilterById(id) is the preset saved last under the id, with the
\* lastUsed any later updateFilterLastUsed gave it, or null when the id was
\* never saved or was deleted since; deleteFilter and updateFilterLastUsed of
\* an id the store does not hold leave the stored presets as they are.
C30_PresetsAsMap ==
  /\ [](OnePerId /\ LooksUpSaved)
  /\ [][\A filterId \in PresetIds :
          /\ ~Known(filterId)
          /\ deleteFilter(filterId) \/ updateFilterLastUsed(filterId)
          => StoredPresets(storage') = StoredPresets(storage)]_vars

\* f1 was saved with an undefined minYear and used on day 2, f2 was saved and
\* deleted, f3 was never saved, and getFilterById has just returned f1
C30_Witness ==
  /\ saved["f2"] = JsNull
  /\ saved["f3"] = NoPreset
  /\ Known("f1")
  /\ Get(saved["f1"], "name") = JsString("Old")
  /\ Get(saved["f1"], "lastUsed") = ToISOString(2)
  /\ presetOut = Defined(saved["f1"])
  /\ presetOut # saved["f1"]
  /\ Len(Items(getSavedFilters)) = 1

====
